---- MODULE Spec2Model ----
(***************************************************************************)
(* bufcli: the ingest pipeline (src/bin/bufcli/builder/data.rs), the       *)
(* statistics store writer (src/climo_db/populate.rs) and the earlier      *)
(* build_climo driver (src/bin/bufcli/builder.rs), as state machines; of   *)
(* src/builder.rs the LocationUpdater thread and the collector.            *)
(*                                                                         *)
(* One thread of the program is one family of actions; a bounded crossbeam *)
(* channel is a sequence of at most CAPACITY messages whose endpoints live *)
(* as long as the threads that own them.                                   *)
(*                                                                         *)
(* The distribution math (src/distributions.rs) and the distribution       *)
(* builder (src/climo_db/build_cdf.rs) are functions: each is an operator, *)
(* applied by an action to inputs the initial state draws.                 *)
(*                                                                         *)
(* Three more machines stand on their own: ClimoPopulateInterface call by  *)
(* call, the distribution build (src/bin/bufcli/builder/deciles.rs) with   *)
(* its threads, and ClimoQueryInterface::hourly_deciles                    *)
(* (src/climo_db/query.rs).                                                *)
(***************************************************************************)
EXTENDS Integers, Sequences, FiniteSets, TLC

(***************************************************************************)
(* Bounds of the model.  CAPACITY, POOL_SIZE and BUFSIZE stand for the     *)
(* program constants of the same name (256, 12 and 4096 in the source),    *)
(* scaled down so that full queues, idle workers and full write buffers    *)
(* all occur with a handful of files.                                      *)
(***************************************************************************)
MaxFiles == 2
MaxSnd == 2
MaxTotal == 3
CAPACITY == 1
POOL_SIZE == 2
BUFSIZE == 2
MaxRuns == 2

\* Model::hours_between_runs() of the forecast model (bufkit_data), scaled.
HoursBetweenRuns == 2

\* The (site, model) pairs requested on the command line, in iproduct! order.
Pairs == {1, 2}
NumPairs == Cardinality(Pairs)
\* Init-times a run of the archive may have.
Times == {0, 1}

Workers == 1..POOL_SIZE

(***************************************************************************)
(* The raw archive and the decoder (external collaborators): a file is     *)
(* keyed by <<pair, init_time>>; its content either cannot be retrieved,   *)
(* cannot be decoded, or decodes to a sequence of soundings.               *)
(***************************************************************************)
NoLead == -1
NoTime == -1
NoLoc == 0

SndKinds == {"ok", "novt", "noloc", "nolead", "late"}

\* The i-th sounding of the file <<p, t>>: lead time i-1 hours, valid time
\* init + lead, one location; a defect removes one of them, and a "late"
\* sounding lies beyond the hours between runs.  obs stands for the measured
\* profile the statistics are derived from.
Snd(p, t, i, kind) ==
    LET lead == IF kind = "late" THEN HoursBetweenRuns + i - 1 ELSE i - 1
    IN  [lead |-> IF kind = "nolead" THEN NoLead ELSE lead,
         vt   |-> IF kind = "novt" THEN NoTime ELSE t + lead,
         loc  |-> IF kind = "noloc" THEN NoLoc ELSE 1,
         obs  |-> <<p, t, i>>]

NoSnd == [lead |-> NoLead, vt |-> NoTime, loc |-> NoLoc, obs |-> <<>>]

KindSeqs == UNION {[1..n -> SndKinds] : n \in 0..MaxSnd}

Content(k, status, kinds) ==
    [status |-> status,
     snds   |-> [i \in 1..Len(kinds) |-> Snd(k[1], k[2], i, kinds[i])]]

NoData == [status |-> "none", snds |-> <<>>]

\* Every content of a file: up to MaxSnd soundings with any defects.
ContentsOf(k) ==
    {Content(k, "retrieve_err", <<>>), Content(k, "decode_err", <<>>)}
        \cup {Content(k, "ok", ks) : ks \in KindSeqs}

\* The contents without a defective sounding.
CleanContentsOf(k) ==
    {Content(k, "decode_err", <<>>)}
        \cup {Content(k, "ok", [i \in 1..n |-> "ok"]) : n \in 1..MaxSnd}

\* Two runs of pair 1 closer than the hours between runs, and a run of pair 2.
FileKeys == {<<1, 0>>, <<1, 1>>, <<2, 0>>}

RECURSIVE SumOver(_, _)
SumOver(f, S) ==
    IF S = {} THEN 0
    ELSE LET x == CHOOSE y \in S : TRUE IN f[x] + SumOver(f, S \ {x})

NumSoundings(a) == SumOver([k \in DOMAIN a |-> Len(a[k].snds)], DOMAIN a)

ArchivesOver(K, contents(_)) ==
    {a \in [K -> UNION {contents(k) : k \in K}] : \A k \in K : a[k] \in contents(k)}

\* The archives a run starts from: one file with any content, or up to
\* MaxFiles files without defective soundings and at most MaxTotal soundings.
OneFileArchives == UNION {ArchivesOver({k}, ContentsOf) : k \in FileKeys}

CleanArchives ==
    {a \in UNION {ArchivesOver(K, CleanContentsOf) :
                    K \in {S \in SUBSET FileKeys : Cardinality(S) \in 2..MaxFiles}} :
        NumSoundings(a) <= MaxTotal}

Archives == OneFileArchives \cup CleanArchives

(***************************************************************************)
(* State.                                                                  *)
(***************************************************************************)
VARIABLES
    arch0,      \* input: the archive when the first run starts
    files,      \* keys of the files now in the archive
    op,         \* input: args.operation, "build" or "update"
    fault,      \* input: the one failure of the environment in this run
    q,          \* the six bounded channels
    pc,         \* position of each stage thread and of the driver
    wpc,        \* position of each pool worker
    gen,        \* locals of the Generator thread
    hold,       \* messages a stage thread has built and not yet sent
    whold,      \* messages a pool worker has built and not yet sent
    joinIdx,    \* the join handle the driver waits on next
    buffer,     \* write_buffer of the ClimoWriter's ClimoPopulateInterface
    store,      \* the Statistics Store: cli rows and locations rows
    pairsSeen,  \* site_model_pairs of the driver
    progress,   \* value last given to pb.set
    emitted,    \* history: Load messages sent by the Generator
    received,   \* history: messages the collector loop took, in order
    sent,       \* history: StatsRecords accepted by the stats channel
    writeLog,   \* history: records INSERTed, in order
    stmts,      \* history: statements run on the store, by whom
    run,        \* number of the current run of the pipeline
    store1,     \* the store as the previous run left it
    passed,     \* history: messages accepted by each pipeline channel, in order
    removeLog,  \* history: calls of Archive::remove in this run, in order
    \* Distribution math (distributions.rs):
    sample,         \* input: the Vec<f64> given to CumulativeDistribution::new
    value,          \* input: the argument of percentile_of_value
    debug_build,    \* input: the build checks integer overflow (debug profile)
    cd,             \* the CumulativeDistribution: [made, sorted_values]
    result,         \* what the function applied to cd returned
    \* Distribution builder (climo_db/build_cdf.rs):
    db_rows,        \* input: the rows all_data_query yields
    all_data,       \* the AllData returned by load_all_data
    to_ret,         \* what create_deciles returned
    center,         \* input: the day of year a window is made around
    vt,             \* input: the valid time the window is asked about
    accepted,       \* what the closure of make_window_func returned
    \* Deciles as a blob:
    dec,            \* input: a Deciles value, 11 doubles as bit patterns
    blob,           \* the Vec<u8> returned by as_bytes
    back,           \* the Deciles returned by from_reader
    \* ClimoPopulateInterface on its own (climo_db/populate.rs):
    env,            \* input: the statement the store fails, and the profile
    iface,          \* write_buffer, and the store behind the connection
    conn,           \* history: the statements executed on the connection
    calls,          \* history: the calls of add and drop, and what they did
    \* The distribution build (bin/bufcli/builder/deciles.rs):
    cin,            \* input: the decile rows of each pair, and the failing call
    ctodo,          \* the pairs CDFMaster has not loaded yet
    cq,             \* the channels data, db_add and main
    cpc,            \* where CDFMaster, CDFDbAdder and the main loop are
    chold,          \* the message CDFMaster or CDFDbAdder is about to send
    cw,             \* the pool jobs: [pc, hold]
    cdb,            \* the CDFDbAdder's interface and its connection
    cgot,           \* history: the messages the main loop received
    \* ClimoQueryInterface::hourly_deciles (climo_db/query.rs):
    range,          \* input: start_time, end_time and the rows of the query
    returned        \* what hourly_deciles returned

\* The variables of the ingest pipeline.
ingestVars == <<arch0, files, op, fault, q, pc, wpc, gen, hold, whold, joinIdx,
                buffer, store, pairsSeen, progress, emitted, received, sent,
                writeLog, stmts, run, store1, passed, removeLog>>

\* The two histories of the channels and of the archive.
hvars == <<passed, removeLog>>

\* The variables of the library functions.
libVars == <<sample, value, debug_build, cd, result, db_rows, all_data,
             to_ret, center, vt, accepted, dec, blob, back>>

ifaceVars == <<env, iface, conn, calls>>

decVars == <<cin, ctodo, cq, cpc, chold, cw, cdb, cgot>>

queryVars == <<range, returned>>

\* The variables of the other state machines of the program.
xvars == <<ifaceVars, decVars, queryVars>>

\* What the library functions leave alone, and what the ingest pipeline
\* leaves alone.
pvars == <<ingestVars, xvars>>

dvars == <<libVars, xvars>>

\* What ClimoPopulateInterface leaves alone.
ifaceRest == <<ingestVars, libVars, decVars, queryVars>>
decRest == <<ingestVars, libVars, ifaceVars, queryVars>>
queryRest == <<ingestVars, libVars, ifaceVars, decVars>>

vars == <<ingestVars, libVars, xvars>>

Chans == {"load", "parse", "cli", "loc", "comp", "stats"}
Stages == {"gen", "load", "parser", "cli", "loc", "stats", "main"}
Term == {"done", "failed", "panicked"}

\* The one failure of the environment in a run: which call fails, and for
\* "insert", "file_exists" and "remove" at which call of that kind.
NoFault == [kind |-> "none", at |-> 0]
Fault(kind, at) == [kind |-> kind, at |-> at]

(***************************************************************************)
(* Channel endpoints.  A thread owns the endpoints moved into it until it  *)
(* returns or panics.  The CliStatsBuilder thread keeps its own receiver   *)
(* and senders while it waits in pool.join(), so the workers' clones never *)
(* outlive them.                                                           *)
(***************************************************************************)
\* A variant in which build keeps a handle of the receiver of the stats
\* channel, so that the channel outlives its writer.
RecvAliveStatsKept(ch) ==
    CASE ch = "load"  -> pc["load"] \notin Term
      [] ch = "parse" -> pc["parser"] \notin Term
      [] ch = "cli"   -> pc["cli"] \notin Term
      [] ch = "loc"   -> pc["loc"] \notin Term
      [] ch = "comp"  -> pc["main"] \in {"start", "collect"}
      [] ch = "stats" -> TRUE

RecvAlive(ch) ==
    CASE ch = "load"  -> pc["load"] \notin Term
      [] ch = "parse" -> pc["parser"] \notin Term
      [] ch = "cli"   -> pc["cli"] \notin Term
      [] ch = "loc"   -> pc["loc"] \notin Term
      [] ch = "comp"  -> pc["main"] \in {"start", "collect"}
      [] ch = "stats" -> pc["stats"] \notin Term

\* A variant in which build keeps a sender of the completion channel.
SendAliveCompKept(ch) ==
    CASE ch = "load"  -> pc["gen"] \notin Term
      [] ch = "parse" -> pc["load"] \notin Term
      [] ch = "cli"   -> pc["parser"] \notin Term
      [] ch = "loc"   -> pc["cli"] \notin Term
      [] ch = "comp"  -> TRUE
      [] ch = "stats" -> pc["cli"] \notin Term \/ pc["loc"] \notin Term

SendAlive(ch) ==
    CASE ch = "load"  -> pc["gen"] \notin Term
      [] ch = "parse" -> pc["load"] \notin Term
      [] ch = "cli"   -> pc["parser"] \notin Term
      [] ch = "loc"   -> pc["cli"] \notin Term
      [] ch = "comp"  -> pc["loc"] \notin Term
      [] ch = "stats" -> pc["cli"] \notin Term \/ pc["loc"] \notin Term

\* A send that never waits for a free slot.
CanSendUnbounded(ch) == RecvAlive(ch)

\* Sender::send: an error once every receiver is gone, else it blocks while
\* the channel is full.
CanSend(ch) == RecvAlive(ch) /\ Len(q[ch]) < CAPACITY
SendFails(ch) == ~RecvAlive(ch)
\* Receiver::recv (the channel as an iterator): the messages left are still
\* delivered after the last sender is gone; then the iteration ends.
CanRecv(ch) == q[ch] # <<>>
Closed(ch) == q[ch] = <<>> /\ ~SendAlive(ch)

Msg(type, num, k, snd, data, text) ==
    [type |-> type, num |-> num, pair |-> k[1], time |-> k[2],
     snd |-> snd, data |-> data, text |-> text]

\* The ClimoWriter thread has been spawned and has not returned.
WriterActive == pc["stats"] \notin Term

\* Statements a thread runs on its connection to the store are recorded with
\* whether the writer thread was running at that moment.
Ran(thread, names) ==
    {[thread |-> thread, stmt |-> s, writerActive |-> WriterActive] : s \in names}

EmptyStore == [cli |-> {}, locations |-> {}]

\* The history of a channel other than the stats channel, whose records are
\* in sent and writeLog.
NonePassed == [c \in Chans \ {"stats"} |-> <<>>]

Pass(ch, m) ==
    IF ch = "stats" THEN passed ELSE [passed EXCEPT ![ch] = Append(@, m)]

Fresh ==
    [q |-> [c \in Chans |-> <<>>],
     pc |-> [s \in Stages |->
                CASE s \in {"gen", "load", "stats"} -> "init"
                  [] s \in {"parser", "loc"} -> "run"
                  [] s = "cli" -> "join"
                  [] s = "main" -> "start"],
     gen |-> [pair |-> 0, todo |-> {}, counter |-> 0, nInit |-> 0, small |-> 0],
     hold |-> [s \in {"load", "parser", "loc"} |-> <<>>]]

InitRun ==
    /\ q = Fresh.q
    /\ pc = Fresh.pc
    /\ wpc = [w \in Workers |-> "run"]
    /\ gen = Fresh.gen
    /\ hold = Fresh.hold
    /\ whold = [w \in Workers |-> <<>>]
    /\ joinIdx = 1
    /\ buffer = <<>>
    /\ pairsSeen = {}
    /\ progress = 0
    /\ emitted = 0
    /\ received = <<>>
    /\ sent = {}
    /\ writeLog = <<>>
    /\ stmts = {}
    /\ passed = NonePassed
    /\ removeLog = <<>>

(***************************************************************************)
(* Generator thread: start_entry_point_thread.                             *)
(***************************************************************************)
\* init_times.sql is not part of the sources; by the specification the
\* query returns the valid times the store already holds for the pair.
ValidTimesFor(p) == {r.vt : r \in {x \in store.cli : x.pair = p}}

\* Drop for ClimoPopulateInterface with an empty write buffer: flush() opens
\* and commits a transaction, then VACUUM.
DropStmts == {"BEGIN TRANSACTION", "COMMIT TRANSACTION", "VACUUM"}

\* A generator that always rebuilds: no init-time counts as done.
DoneTimesForced(p) == {}

\* done_times: empty under force_rebuild (operation "build"), otherwise the
\* times the store holds for the pair.
DoneTimes(p) == IF op # "build" THEN ValidTimesFor(p) ELSE {}

GenReturnErr ==
    /\ pc' = [pc EXCEPT !["gen"] = "failed"]
    /\ stmts' = stmts \cup Ran("gen", DropStmts)

\* The head of the loop over iproduct!(&sites, &args.models), after the
\* counter adjustment that ends the previous pair.  The thread's first step
\* begins with its connections to the archive and to the store; a failure
\* there returns before the interface exists (nothing to drop).
GenNextPair ==
    /\ pc["gen"] \in {"init", "run"}
    /\ gen.todo = {}
    /\ gen.pair < NumPairs
    /\ LET p == gen.pair + 1
           init_times == {k[2] : k \in {f \in files : f[1] = p}}
           done_times == DoneTimes(p)
       IN  IF pc["gen"] = "init" /\ fault.kind = "gen_connect"
           THEN /\ pc' = [pc EXCEPT !["gen"] = "failed"]
                /\ UNCHANGED <<gen, stmts>>
           ELSE IF fault.kind = "gen_init_times" /\ p = NumPairs
           THEN GenReturnErr /\ UNCHANGED gen
           ELSE /\ gen' = [pair |-> p,
                           todo |-> init_times \ done_times,
                           counter |-> gen.counter + gen.nInit - gen.small,
                           nInit |-> Cardinality(init_times),
                           small |-> 0]
                /\ pc' = [pc EXCEPT !["gen"] = "run"]
                /\ UNCHANGED stmts
    /\ UNCHANGED <<arch0, files, op, fault, q, wpc, hold, whold, joinIdx,
                   buffer, store, pairsSeen, progress, emitted, received,
                   sent, writeLog, run, store1, hvars,
                   dvars>>

\* One iteration of the loop over init_times.difference(&done_times); a
\* HashSet yields its elements in no fixed order.
GenSend ==
    /\ pc["gen"] = "run"
    /\ \E t \in gen.todo :
         LET num == gen.counter + 1
             m == Msg("Load", num, <<gen.pair, t>>, NoSnd, NoData, "")
         IN  IF SendFails("load")
             THEN /\ GenReturnErr
                  /\ gen' = [gen EXCEPT !.counter = num, !.small = @ + 1]
                  /\ UNCHANGED <<q, emitted, passed>>
             ELSE /\ Len(q["load"]) < CAPACITY
                  /\ q' = [q EXCEPT !["load"] = Append(@, m)]
                  /\ passed' = Pass("load", m)
                  /\ gen' = [gen EXCEPT !.todo = @ \ {t}, !.counter = num,
                                        !.small = @ + 1]
                  /\ emitted' = emitted + 1
                  /\ UNCHANGED <<pc, stmts>>
    /\ UNCHANGED <<arch0, files, op, fault, wpc, hold, whold, joinIdx, buffer,
                   store, pairsSeen, progress, received, sent, writeLog, run,
                   store1, removeLog,
                   dvars>>

\* The loop is over: Ok(()), and the thread's ClimoPopulateInterface drops.
GenFinish ==
    /\ pc["gen"] = "run"
    /\ gen.todo = {}
    /\ gen.pair = NumPairs
    /\ gen' = [gen EXCEPT !.counter = gen.counter + gen.nInit - gen.small,
                          !.nInit = 0, !.small = 0]
    /\ pc' = [pc EXCEPT !["gen"] = "done"]
    /\ stmts' = stmts \cup Ran("gen", DropStmts)
    /\ UNCHANGED <<arch0, files, op, fault, q, wpc, hold, whold, joinIdx,
                   buffer, store, pairsSeen, progress, emitted, received,
                   sent, writeLog, run, store1, hvars,
                   dvars>>

(***************************************************************************)
(* Sending what a stage holds.  An item names the channel it goes to.      *)
(***************************************************************************)
Item(to, m) == [to |-> to, m |-> m]

StatsItems(items) == {it.m : it \in {x \in items : x.to = "stats"}}

(***************************************************************************)
(* FileLoader thread: start_load_thread.                                   *)
(***************************************************************************)
\* Archive::retrieve of the raw archive.
Retrieve(k) ==
    IF k \in files /\ arch0[k].status # "retrieve_err"
    THEN [ok |-> TRUE, data |-> arch0[k]]
    ELSE [ok |-> FALSE, data |-> NoData]

LoadMessage(m) ==
    IF m.type = "Load"
    THEN LET r == Retrieve(<<m.pair, m.time>>)
         IN  IF r.ok
             THEN Msg("Parse", m.num, <<m.pair, m.time>>, NoSnd, r.data, "")
             ELSE Msg("DataError", m.num, <<m.pair, m.time>>, NoSnd, NoData,
                      "retrieve")
    ELSE m

\* One iteration of `for load_req in load_requests_rcv`, or its end.  The
\* thread's first step begins with Archive::connect(root)?.
LoadRecv ==
    /\ pc["load"] \in {"init", "run"}
    /\ hold["load"] = <<>>
    /\ IF pc["load"] = "init" /\ fault.kind = "load_connect"
       THEN /\ pc' = [pc EXCEPT !["load"] = "failed"]
            /\ UNCHANGED <<q, hold>>
       ELSE IF CanRecv("load")
       THEN /\ hold' = [hold EXCEPT !["load"] =
                          <<Item("parse", LoadMessage(Head(q["load"])))>>]
            /\ q' = [q EXCEPT !["load"] = Tail(@)]
            /\ pc' = [pc EXCEPT !["load"] = "run"]
       ELSE /\ Closed("load")
            /\ pc' = [pc EXCEPT !["load"] = "done"]
            /\ UNCHANGED <<q, hold>>
    /\ UNCHANGED <<arch0, files, op, fault, wpc, gen, whold, joinIdx, buffer,
                   store, pairsSeen, progress, emitted, received, sent,
                   writeLog, stmts, run, store1, hvars,
                   dvars>>

\* parse_requests_snd.send(message).map_err(..)?
LoadSend ==
    /\ pc["load"] = "run"
    /\ hold["load"] # <<>>
    /\ LET it == Head(hold["load"])
       IN  IF SendFails(it.to)
           THEN /\ pc' = [pc EXCEPT !["load"] = "failed"]
                /\ hold' = [hold EXCEPT !["load"] = <<>>]
                /\ UNCHANGED <<q, passed>>
           ELSE /\ CanSend(it.to)
                /\ q' = [q EXCEPT ![it.to] = Append(@, it.m)]
                /\ passed' = Pass(it.to, it.m)
                /\ hold' = [hold EXCEPT !["load"] = Tail(@)]
                /\ UNCHANGED pc
    /\ UNCHANGED <<arch0, files, op, fault, wpc, gen, whold, joinIdx, buffer,
                   store, pairsSeen, progress, emitted, received, sent,
                   writeLog, stmts, run, store1, removeLog,
                   dvars>>

(***************************************************************************)
(* SoundingParser thread: start_parser_thread.                             *)
(***************************************************************************)
\* The take_while closure: the lead time is present and below the model's
\* hours between runs.
\* A variant of the take_while test without the cap at the hours between runs.
EligibleNoCap(snd) == snd.lead # NoLead

Eligible(snd) == snd.lead # NoLead /\ snd.lead < HoursBetweenRuns

\* Every eligible sounding of the file, wherever it stands: a filter in the
\* place of take_while.
FilterEligible(snds) == SelectSeq(snds, Eligible)

\* take_while: the longest leading run of eligible soundings.
RECURSIVE TakeWhile(_)
TakeWhile(snds) ==
    IF snds = <<>> \/ ~Eligible(Head(snds))
    THEN <<>>
    ELSE <<Head(snds)>> \o TakeWhile(Tail(snds))

\* A parser that numbers what it sends by the sounding's place in its file.
ParsedSoundingOwnNum(m, snd) ==
    IF snd.vt # NoTime
    THEN Msg("CliData", snd.obs[3], <<m.pair, snd.vt>>, snd, NoData, "")
    ELSE Msg("DataError", snd.obs[3], <<m.pair, m.time>>, NoSnd, NoData,
             "No valid time")

\* What the parser sends for one retained sounding.
ParsedSounding(m, snd) ==
    IF snd.vt # NoTime
    THEN Msg("CliData", m.num, <<m.pair, snd.vt>>, snd, NoData, "")
    ELSE Msg("DataError", m.num, <<m.pair, m.time>>, NoSnd, NoData,
             "No valid time")

ParserOutput(m) ==
    IF m.type = "Parse"
    THEN IF m.data.status = "decode_err"
         THEN <<Item("cli", Msg("DataError", m.num, <<m.pair, m.time>>, NoSnd,
                                NoData, "decode"))>>
         ELSE LET kept == TakeWhile(m.data.snds)
              IN  [i \in 1..Len(kept) |-> Item("cli", ParsedSounding(m, kept[i]))]
    ELSE <<Item("cli", m)>>

ParserRecv ==
    /\ pc["parser"] = "run"
    /\ hold["parser"] = <<>>
    /\ CanRecv("parse") \/ Closed("parse")
    /\ IF CanRecv("parse")
       THEN /\ hold' = [hold EXCEPT !["parser"] = ParserOutput(Head(q["parse"]))]
            /\ q' = [q EXCEPT !["parse"] = Tail(@)]
            /\ UNCHANGED pc
       ELSE /\ pc' = [pc EXCEPT !["parser"] = "done"]
            /\ UNCHANGED <<q, hold>>
    /\ UNCHANGED <<arch0, files, op, fault, wpc, gen, whold, joinIdx, buffer,
                   store, pairsSeen, progress, emitted, received, sent,
                   writeLog, stmts, run, store1, hvars,
                   dvars>>

\* cli_requests.send(message).map_err(..)?
ParserSend ==
    /\ pc["parser"] = "run"
    /\ hold["parser"] # <<>>
    /\ LET it == Head(hold["parser"])
       IN  IF SendFails(it.to)
           THEN /\ pc' = [pc EXCEPT !["parser"] = "failed"]
                /\ hold' = [hold EXCEPT !["parser"] = <<>>]
                /\ UNCHANGED <<q, passed>>
           ELSE /\ CanSend(it.to)
                /\ q' = [q EXCEPT ![it.to] = Append(@, it.m)]
                /\ passed' = Pass(it.to, it.m)
                /\ hold' = [hold EXCEPT !["parser"] = Tail(@)]
                /\ UNCHANGED pc
    /\ UNCHANGED <<arch0, files, op, fault, wpc, gen, whold, joinIdx, buffer,
                   store, pairsSeen, progress, emitted, received, sent,
                   writeLog, stmts, run, store1, removeLog,
                   dvars>>

(***************************************************************************)
(* StatsRecord (stats_record.rs).  val stands for the derived statistics,  *)
(* a function of the sounding alone; src is history: the sounding a record *)
(* was built from, which the store never sees.                             *)
(***************************************************************************)
\* A variant that keys the record by the init time of the run (the name of
\* the parameter in stats_record.rs) instead of the valid time it is given.
create_cli_dataInitTime(pair, valid_time, snd) ==
    [kind |-> "CliData", pair |-> pair, vt |-> valid_time - snd.lead,
     val |-> snd.obs, loc |-> NoLoc, src |-> snd.obs]

create_cli_data(pair, valid_time, snd) ==
    [kind |-> "CliData", pair |-> pair, vt |-> valid_time, val |-> snd.obs,
     loc |-> NoLoc, src |-> snd.obs]

\* Err(site) when the sounding has no location or no elevation.
create_location_data(pair, valid_time, snd) ==
    IF snd.loc # NoLoc
    THEN [ok |-> TRUE,
          rec |-> [kind |-> "Location", pair |-> pair, vt |-> valid_time,
                   val |-> <<>>, loc |-> snd.loc, src |-> snd.obs]]
    ELSE [ok |-> FALSE, rec |-> NoSnd]

(***************************************************************************)
(* CliStatsBuilder thread and its pool: start_cli_stats_thread.            *)
(***************************************************************************)
\* A worker that forwards the Location message before it sends the record.
WorkerOutputLocationFirst(m) ==
    IF m.type = "CliData"
    THEN <<Item("loc", [m EXCEPT !.type = "Location"]),
           Item("stats", create_cli_data(m.pair, m.time, m.snd))>>
    ELSE <<Item("loc", m)>>

\* A worker that forwards the Location message without sending the record.
WorkerOutputNoRecord(m) ==
    IF m.type = "CliData"
    THEN <<Item("loc", [m EXCEPT !.type = "Location"])>>
    ELSE <<Item("loc", m)>>

WorkerOutput(m) ==
    IF m.type = "CliData"
    THEN <<Item("stats", create_cli_data(m.pair, m.time, m.snd)),
           Item("loc", [m EXCEPT !.type = "Location"])>>
    ELSE <<Item("loc", m)>>

WorkerRecv(w) ==
    /\ wpc[w] = "run"
    /\ whold[w] = <<>>
    /\ CanRecv("cli") \/ Closed("cli")
    /\ IF CanRecv("cli")
       THEN /\ whold' = [whold EXCEPT ![w] = WorkerOutput(Head(q["cli"]))]
            /\ q' = [q EXCEPT !["cli"] = Tail(@)]
            /\ UNCHANGED wpc
       ELSE /\ wpc' = [wpc EXCEPT ![w] = "done"]
            /\ UNCHANGED <<q, whold>>
    /\ UNCHANGED <<arch0, files, op, fault, pc, gen, hold, joinIdx, buffer,
                   store, pairsSeen, progress, emitted, received, sent,
                   writeLog, stmts, run, store1, hvars,
                   dvars>>

\* .send(message).expect("Error sending message."): a worker panics when
\* the receiving side is gone.
WorkerSend(w) ==
    /\ wpc[w] = "run"
    /\ whold[w] # <<>>
    /\ LET it == Head(whold[w])
       IN  IF SendFails(it.to)
           THEN /\ wpc' = [wpc EXCEPT ![w] = "panicked"]
                /\ whold' = [whold EXCEPT ![w] = <<>>]
                /\ UNCHANGED <<q, sent, passed>>
           ELSE /\ CanSend(it.to)
                /\ q' = [q EXCEPT ![it.to] = Append(@, it.m)]
                /\ passed' = Pass(it.to, it.m)
                /\ whold' = [whold EXCEPT ![w] = Tail(@)]
                /\ sent' = sent \cup StatsItems({it})
                /\ UNCHANGED wpc
    /\ UNCHANGED <<arch0, files, op, fault, pc, gen, hold, joinIdx, buffer,
                   store, pairsSeen, progress, emitted, received, writeLog,
                   stmts, run, store1, removeLog,
                   dvars>>

\* pool.join() returns once every job has ended, normally or by a panic.
CliJoin ==
    /\ pc["cli"] = "join"
    /\ \A w \in Workers : wpc[w] \in Term
    /\ pc' = [pc EXCEPT !["cli"] = "done"]
    /\ UNCHANGED <<arch0, files, op, fault, q, wpc, gen, hold, whold, joinIdx,
                   buffer, store, pairsSeen, progress, emitted, received,
                   sent, writeLog, stmts, run, store1, hvars,
                   dvars>>

(***************************************************************************)
(* LocationUpdater thread: start_location_stats_thread.                    *)
(***************************************************************************)
\* A location stage that takes every sounding for a lead-zero one.
AnyLead(snd) == TRUE

\* A location stage that takes every sounding under the cap of the parser.
LeadUnderCap(snd) == Eligible(snd)

\* snd.lead_time().into_option().map(|lt| lt == 0).unwrap_or(true)
LeadZero(snd) == IF snd.lead = NoLead THEN TRUE ELSE snd.lead = 0

\* A location stage that drops the messages it does not handle.
LocOutputDropOthers(m) ==
    IF m.type = "Location"
    THEN IF LeadZero(m.snd)
         THEN LET r == create_location_data(m.pair, m.time, m.snd)
              IN  IF r.ok
                  THEN <<Item("stats", r.rec),
                         Item("comp", Msg("PopulateCompleted", m.num,
                                          <<m.pair, NoTime>>, NoSnd, NoData, ""))>>
                  ELSE <<Item("comp", Msg("DataError", m.num, <<m.pair, m.time>>,
                                          NoSnd, NoData,
                                          "Missing location information"))>>
         ELSE <<>>
    ELSE <<>>

\* What the thread sends for one message.
LocOutput(m) ==
    IF m.type = "Location"
    THEN IF LeadZero(m.snd)
         THEN LET r == create_location_data(m.pair, m.time, m.snd)
              IN  IF r.ok
                  THEN <<Item("stats", r.rec),
                         Item("comp", Msg("PopulateCompleted", m.num,
                                          <<m.pair, NoTime>>, NoSnd, NoData, ""))>>
                  ELSE <<Item("comp", Msg("DataError", m.num, <<m.pair, m.time>>,
                                          NoSnd, NoData,
                                          "Missing location information"))>>
         ELSE <<>>
    ELSE <<Item("comp", m)>>

LocRecv ==
    /\ pc["loc"] = "run"
    /\ hold["loc"] = <<>>
    /\ CanRecv("loc") \/ Closed("loc")
    /\ IF CanRecv("loc")
       THEN /\ hold' = [hold EXCEPT !["loc"] = LocOutput(Head(q["loc"]))]
            /\ q' = [q EXCEPT !["loc"] = Tail(@)]
            /\ UNCHANGED pc
       ELSE /\ pc' = [pc EXCEPT !["loc"] = "done"]
            /\ UNCHANGED <<q, hold>>
    /\ UNCHANGED <<arch0, files, op, fault, wpc, gen, whold, joinIdx, buffer,
                   store, pairsSeen, progress, emitted, received, sent,
                   writeLog, stmts, run, store1, hvars,
                   dvars>>

\* .send(..).map_err(|err| err.to_string())?
LocSend ==
    /\ pc["loc"] = "run"
    /\ hold["loc"] # <<>>
    /\ LET it == Head(hold["loc"])
       IN  IF SendFails(it.to)
           THEN /\ pc' = [pc EXCEPT !["loc"] = "failed"]
                /\ hold' = [hold EXCEPT !["loc"] = <<>>]
                /\ UNCHANGED <<q, sent, passed>>
           ELSE /\ CanSend(it.to)
                /\ q' = [q EXCEPT ![it.to] = Append(@, it.m)]
                /\ passed' = Pass(it.to, it.m)
                /\ hold' = [hold EXCEPT !["loc"] = Tail(@)]
                /\ sent' = sent \cup StatsItems({it})
                /\ UNCHANGED pc
    /\ UNCHANGED <<arch0, files, op, fault, wpc, gen, whold, joinIdx, buffer,
                   store, pairsSeen, progress, emitted, received, writeLog,
                   stmts, run, store1, removeLog,
                   dvars>>

(***************************************************************************)
(* ClimoPopulateInterface (populate.rs) and the ClimoWriter thread         *)
(* (start_stats_thread).                                                   *)
(***************************************************************************)
\* add_data.sql and add_location.sql are not part of the sources; by the
\* specification the first is INSERT OR REPLACE keyed by (site, model,
\* valid_time), the second INSERT OR IGNORE, unique on the whole row.
InsertRow(st, r) ==
    IF r.kind = "CliData"
    THEN [st EXCEPT !.cli =
            {x \in @ : ~(x.pair = r.pair /\ x.vt = r.vt)}
                \cup {[pair |-> r.pair, vt |-> r.vt, val |-> r.val]}]
    ELSE [st EXCEPT !.locations = @ \cup {[pair |-> r.pair, loc |-> r.loc]}]

\* The statement of the record now written is the one the fault hits.
InsertFails(log) == fault.kind = "insert" /\ Len(log) + 1 = fault.at

\* The loop of flush over write_buffer.drain(..): on the first failing
\* statement the transaction is committed and the error returned; dropping
\* the Drain discards the records that follow.
RECURSIVE FlushLoop(_, _)
FlushLoop(buf, res) ==
    IF buf = <<>>
    THEN res
    ELSE IF InsertFails(res.log)
         THEN [res EXCEPT !.ok = FALSE]
         ELSE FlushLoop(Tail(buf),
                        [res EXCEPT !.st = InsertRow(@, Head(buf)),
                                    !.log = Append(@, Head(buf))])

flush(buf) == FlushLoop(buf, [st |-> store, log |-> writeLog, ok |-> TRUE])

\* A variant of Drop without the flush: only VACUUM.
DropNoFlush(buf) == [st |-> store, log |-> writeLog, ok |-> TRUE]

\* Drop for ClimoPopulateInterface: self.flush().unwrap() (VACUUM follows
\* when the flush succeeded).
DropFlush(buf) == flush(buf)

FlushStmts(buf) ==
    {"BEGIN TRANSACTION", "COMMIT TRANSACTION"}
        \cup (IF buf # <<>> THEN {"INSERT"} ELSE {})

\* One iteration of `for msg in stats_rcv`: climo_db.add(msg), with the
\* flush of a full buffer.  An error returns from the thread, which drops
\* the interface (a flush of the now empty buffer, then VACUUM).
\* The thread's first step begins with ClimoDB::connect_or_create and
\* ClimoPopulateInterface::initialize; a failure there returns before the
\* interface exists.
StatsConnectFails == pc["stats"] = "init" /\ fault.kind = "stats_connect"

StatsAdd ==
    /\ pc["stats"] \in {"init", "run"}
    /\ IF StatsConnectFails
       THEN /\ pc' = [pc EXCEPT !["stats"] = "failed"]
            /\ UNCHANGED <<q, buffer, store, writeLog, stmts>>
       ELSE
        /\ CanRecv("stats")
        /\ q' = [q EXCEPT !["stats"] = Tail(@)]
        /\ LET buf == Append(buffer, Head(q["stats"]))
               res == flush(buf)
           IN  IF Len(buf) = BUFSIZE
               THEN /\ buffer' = <<>>
                    /\ store' = res.st
                    /\ writeLog' = res.log
                    /\ IF res.ok
                       THEN /\ stmts' = stmts \cup Ran("stats", FlushStmts(buf))
                            /\ pc' = [pc EXCEPT !["stats"] = "run"]
                       ELSE /\ stmts' = stmts \cup
                                    Ran("stats", FlushStmts(buf) \cup DropStmts)
                            /\ pc' = [pc EXCEPT !["stats"] = "failed"]
               ELSE /\ buffer' = buf
                    /\ pc' = [pc EXCEPT !["stats"] = "run"]
                    /\ UNCHANGED <<store, writeLog, stmts>>
    /\ UNCHANGED <<arch0, files, op, fault, wpc, gen, hold, whold, joinIdx,
                   pairsSeen, progress, emitted, received, sent, run, store1, hvars,
                   dvars>>

\* The channel is closed: the loop ends, Ok(()), and the interface drops:
\* self.flush().unwrap(), then VACUUM.
StatsClose ==
    /\ pc["stats"] \in {"init", "run"}
    /\ ~StatsConnectFails
    /\ Closed("stats")
    /\ LET res == DropFlush(buffer)
       IN  /\ buffer' = <<>>
           /\ store' = res.st
           /\ writeLog' = res.log
           /\ IF res.ok
              THEN /\ stmts' = stmts \cup
                           Ran("stats", FlushStmts(buffer) \cup {"VACUUM"})
                   /\ pc' = [pc EXCEPT !["stats"] = "done"]
              ELSE /\ stmts' = stmts \cup Ran("stats", FlushStmts(buffer))
                   /\ pc' = [pc EXCEPT !["stats"] = "panicked"]
    /\ UNCHANGED <<arch0, files, op, fault, q, wpc, gen, hold, whold, joinIdx,
                   pairsSeen, progress, emitted, received, sent, run, store1, hvars,
                   dvars>>

(***************************************************************************)
(* The driver: build.                                                      *)
(***************************************************************************)
NumDataErrors(msgs) ==
    Cardinality({i \in 1..Len(msgs) : msgs[i].type = "DataError"})

\* A call arch.remove(..) for the file k, and whether the file is there.
RemoveCall(k) == [key |-> k, existed |-> k \in files]

\* The DataError arm without the test of file_exists: remove is called for
\* every DataError.
DataErrorArmNoTest(m, nth) ==
    LET k == <<m.pair, m.time>>
    IN  [ok |-> TRUE, files |-> files \ {k}, calls |-> <<RemoveCall(k)>>]

\* What the DataError arm does to the archive: file_exists(..)? and then
\* remove(..)?; either error returns from build.
DataErrorArm(m, nth) ==
    LET k == <<m.pair, m.time>>
    IN  IF fault.kind = "file_exists" /\ nth = fault.at
        THEN [ok |-> FALSE, files |-> files, calls |-> <<>>]
        ELSE IF k \in files
             THEN IF fault.kind = "remove" /\ nth = fault.at
                  THEN [ok |-> FALSE, files |-> files, calls |-> <<RemoveCall(k)>>]
                  ELSE [ok |-> TRUE, files |-> files \ {k},
                        calls |-> <<RemoveCall(k)>>]
             ELSE [ok |-> TRUE, files |-> files, calls |-> <<>>]

\* A collector that counts a pair for every message it receives.
InsertEveryPair(pairs, m) == pairs \cup {m.pair}

\* site_model_pairs after the match on msg: only the PopulateCompleted arm
\* inserts.
site_model_pairs(pairs, m) ==
    IF m.type = "PopulateCompleted" THEN pairs \cup {m.pair} ELSE pairs

\* One iteration of `for msg in comp_notify_rcv`, or its end.  The first
\* step begins with Archive::connect(root)?.
MainCollect ==
    /\ pc["main"] \in {"start", "collect"}
    /\ IF pc["main"] = "start" /\ fault.kind = "main_connect"
       THEN /\ pc' = [pc EXCEPT !["main"] = "failed"]
            /\ UNCHANGED <<q, received, progress, pairsSeen, files, removeLog>>
       ELSE IF CanRecv("comp")
       THEN LET m == Head(q["comp"])
                arm == DataErrorArm(m, NumDataErrors(received) + 1)
            IN  /\ q' = [q EXCEPT !["comp"] = Tail(@)]
                /\ received' = Append(received, m)
                /\ pairsSeen' = site_model_pairs(pairsSeen, m)
                /\ CASE m.type = "PopulateCompleted" ->
                          /\ progress' = m.num
                          /\ pc' = [pc EXCEPT !["main"] = "collect"]
                          /\ UNCHANGED <<files, removeLog>>
                     [] m.type = "DataError" ->
                          /\ progress' = m.num
                          /\ files' = arm.files
                          /\ removeLog' = removeLog \o arm.calls
                          /\ pc' = [pc EXCEPT !["main"] =
                                      IF arm.ok THEN "collect" ELSE "failed"]
                     [] OTHER ->
                          /\ pc' = [pc EXCEPT !["main"] = "collect"]
                          /\ UNCHANGED <<progress, files, removeLog>>
       ELSE /\ Closed("comp")
            /\ pc' = [pc EXCEPT !["main"] = "join"]
            /\ UNCHANGED <<q, received, progress, pairsSeen, files, removeLog>>
    /\ UNCHANGED <<arch0, op, fault, wpc, gen, hold, whold, joinIdx, buffer,
                   store, emitted, sent, writeLog, stmts, run, store1, passed,
                   dvars>>

\* The join handles in the order build joins them.
JoinOrder == <<"gen", "load", "parser", "cli", "loc", "stats">>

\* jh.join().expect(..)?: a panicked thread panics the driver, an Err is
\* returned by build.
MainJoin ==
    /\ pc["main"] = "join"
    /\ pc[JoinOrder[joinIdx]] \in Term
    /\ LET r == pc[JoinOrder[joinIdx]]
       IN  IF r = "done"
           THEN IF joinIdx = Len(JoinOrder)
                THEN /\ pc' = [pc EXCEPT !["main"] = "ok"]
                     /\ UNCHANGED joinIdx
                ELSE /\ joinIdx' = joinIdx + 1
                     /\ UNCHANGED pc
           ELSE /\ pc' = [pc EXCEPT !["main"] = r]
                /\ UNCHANGED joinIdx
    /\ UNCHANGED <<arch0, files, op, fault, q, wpc, gen, hold, whold, buffer,
                   store, pairsSeen, progress, emitted, received, sent,
                   writeLog, stmts, run, store1, hvars,
                   dvars>>

(***************************************************************************)
(* build_climo (src/bin/bufcli/builder.rs): the same pipeline, whose       *)
(* threads return nothing.  A failed call sends ThreadError and returns    *)
(* (assign_or_bail!), a send on a broken channel returns (send_or_bail!),  *)
(* and the LocationUpdater and ClimoWriter threads send TerminateThread    *)
(* before they return.  The ClimoWriter holds a clone of the sender of the *)
(* completion channel.                                                     *)
(***************************************************************************)
ClimoSendAlive(ch) ==
    IF ch = "comp"
    THEN pc["loc"] \notin Term \/ pc["stats"] \notin Term
    ELSE SendAlive(ch)

ClimoClosed(ch) == q[ch] = <<>> /\ ~ClimoSendAlive(ch)

ThreadError(text) == Msg("ThreadError", 0, <<0, NoTime>>, NoSnd, NoData, text)

TerminateThread == Msg("TerminateThread", 0, <<0, NoTime>>, NoSnd, NoData, "")

\* The channel assign_or_bail! is given in each thread.
BailChan(s) ==
    CASE s = "gen" -> "load"
      [] s = "load" -> "parse"
      [] s = "stats" -> "comp"

\* The thread owns a ClimoPopulateInterface when it bails out.
BailDrops(s) ==
    \/ s = "gen" /\ fault.kind = "gen_init_times"
    \/ s = "stats" /\ fault.kind = "insert"

\* assign_or_bail!: send ThreadError (a broken channel is only reported),
\* then return.
ClimoBail(s) ==
    /\ pc[s] = "bail"
    /\ IF SendFails(BailChan(s))
       THEN UNCHANGED <<q, passed>>
       ELSE /\ CanSend(BailChan(s))
            /\ q' = [q EXCEPT ![BailChan(s)] =
                        Append(@, ThreadError(fault.kind))]
            /\ passed' = Pass(BailChan(s), ThreadError(fault.kind))
    /\ pc' = [pc EXCEPT ![s] = "done"]
    /\ stmts' = stmts \cup (IF BailDrops(s) THEN Ran(s, DropStmts) ELSE {})
    /\ UNCHANGED <<arch0, files, op, fault, wpc, gen, hold, whold, joinIdx,
                   buffer, store, pairsSeen, progress, emitted, received,
                   sent, writeLog, run, store1, removeLog,
                   dvars>>

ClimoGenNextPair ==
    /\ pc["gen"] \in {"init", "run"}
    /\ gen.todo = {}
    /\ gen.pair < NumPairs
    /\ LET p == gen.pair + 1
           init_times == {k[2] : k \in {f \in files : f[1] = p}}
           done_times == DoneTimes(p)
       IN  IF \/ pc["gen"] = "init" /\ fault.kind = "gen_connect"
              \/ fault.kind = "gen_init_times" /\ p = NumPairs
           THEN /\ pc' = [pc EXCEPT !["gen"] = "bail"]
                /\ UNCHANGED gen
           ELSE /\ gen' = [pair |-> p,
                           todo |-> init_times \ done_times,
                           counter |-> gen.counter + gen.nInit - gen.small,
                           nInit |-> Cardinality(init_times),
                           small |-> 0]
                /\ pc' = [pc EXCEPT !["gen"] = "run"]
    /\ UNCHANGED <<arch0, files, op, fault, q, wpc, hold, whold, joinIdx,
                   buffer, store, pairsSeen, progress, emitted, received,
                   sent, writeLog, stmts, run, store1, hvars,
                   dvars>>

ClimoGenSend ==
    /\ pc["gen"] = "run"
    /\ \E t \in gen.todo :
         LET num == gen.counter + 1
             m == Msg("Load", num, <<gen.pair, t>>, NoSnd, NoData, "")
         IN  IF SendFails("load")
             THEN /\ pc' = [pc EXCEPT !["gen"] = "done"]
                  /\ stmts' = stmts \cup Ran("gen", DropStmts)
                  /\ gen' = [gen EXCEPT !.counter = num, !.small = @ + 1]
                  /\ UNCHANGED <<q, emitted, passed>>
             ELSE /\ Len(q["load"]) < CAPACITY
                  /\ q' = [q EXCEPT !["load"] = Append(@, m)]
                  /\ passed' = Pass("load", m)
                  /\ gen' = [gen EXCEPT !.todo = @ \ {t}, !.counter = num,
                                        !.small = @ + 1]
                  /\ emitted' = emitted + 1
                  /\ UNCHANGED <<pc, stmts>>
    /\ UNCHANGED <<arch0, files, op, fault, wpc, hold, whold, joinIdx, buffer,
                   store, pairsSeen, progress, received, sent, writeLog, run,
                   store1, removeLog,
                   dvars>>

ClimoGenFinish ==
    /\ pc["gen"] = "run"
    /\ gen.todo = {}
    /\ gen.pair = NumPairs
    /\ gen' = [gen EXCEPT !.counter = gen.counter + gen.nInit - gen.small,
                          !.nInit = 0, !.small = 0]
    /\ pc' = [pc EXCEPT !["gen"] = "done"]
    /\ stmts' = stmts \cup Ran("gen", DropStmts)
    /\ UNCHANGED <<arch0, files, op, fault, q, wpc, hold, whold, joinIdx,
                   buffer, store, pairsSeen, progress, emitted, received,
                   sent, writeLog, run, store1, hvars,
                   dvars>>

\* create_location_data takes no valid time here, and PopulateCompleted
\* carries the number alone.
ClimoLocOutput(m) ==
    IF m.type = "Location"
    THEN IF LeadZero(m.snd)
         THEN LET r == create_location_data(m.pair, NoTime, m.snd)
              IN  IF r.ok
                  THEN <<Item("stats", r.rec),
                         Item("comp", Msg("PopulateCompleted", m.num,
                                          <<0, NoTime>>, NoSnd, NoData, ""))>>
                  ELSE <<Item("comp", Msg("DataError", m.num, <<m.pair, m.time>>,
                                          NoSnd, NoData,
                                          "Missing location information"))>>
         ELSE <<>>
    ELSE <<Item("comp", m)>>

ClimoOutput(s, m) ==
    CASE s = "load" -> <<Item("parse", LoadMessage(m))>>
      [] s = "parser" -> ParserOutput(m)
      [] s = "loc" -> ClimoLocOutput(m)

InChan(s) ==
    CASE s = "load" -> "load"
      [] s = "parser" -> "parse"
      [] s = "loc" -> "loc"

\* One iteration of the loop of the FileLoader, SoundingParser or
\* LocationUpdater thread over its receiver, or the end of the loop.
ClimoStageRecv(s) ==
    /\ pc[s] \in {"init", "run"}
    /\ hold[s] = <<>>
    /\ IF pc[s] = "init" /\ s = "load" /\ fault.kind = "load_connect"
       THEN /\ pc' = [pc EXCEPT ![s] = "bail"]
            /\ UNCHANGED <<q, hold>>
       ELSE IF CanRecv(InChan(s))
       THEN /\ hold' = [hold EXCEPT ![s] = ClimoOutput(s, Head(q[InChan(s)]))]
            /\ q' = [q EXCEPT ![InChan(s)] = Tail(@)]
            /\ pc' = [pc EXCEPT ![s] = "run"]
       ELSE /\ ClimoClosed(InChan(s))
            /\ pc' = [pc EXCEPT ![s] = IF s = "loc" THEN "term" ELSE "done"]
            /\ UNCHANGED <<q, hold>>
    /\ UNCHANGED <<arch0, files, op, fault, wpc, gen, whold, joinIdx, buffer,
                   store, pairsSeen, progress, emitted, received, sent,
                   writeLog, stmts, run, store1, hvars,
                   dvars>>

\* send_or_bail! in those threads.
ClimoStageSend(s) ==
    /\ pc[s] = "run"
    /\ hold[s] # <<>>
    /\ LET it == Head(hold[s])
       IN  IF SendFails(it.to)
           THEN /\ pc' = [pc EXCEPT ![s] = "done"]
                /\ hold' = [hold EXCEPT ![s] = <<>>]
                /\ UNCHANGED <<q, sent, passed>>
           ELSE /\ CanSend(it.to)
                /\ q' = [q EXCEPT ![it.to] = Append(@, it.m)]
                /\ passed' = Pass(it.to, it.m)
                /\ hold' = [hold EXCEPT ![s] = Tail(@)]
                /\ sent' = sent \cup StatsItems({it})
                /\ UNCHANGED pc
    /\ UNCHANGED <<arch0, files, op, fault, wpc, gen, whold, joinIdx, buffer,
                   store, pairsSeen, progress, emitted, received, writeLog,
                   stmts, run, store1, removeLog,
                   dvars>>

\* send_or_bail! in a job of the pool: the job returns.
ClimoWorkerSend(w) ==
    /\ wpc[w] = "run"
    /\ whold[w] # <<>>
    /\ LET it == Head(whold[w])
       IN  IF SendFails(it.to)
           THEN /\ wpc' = [wpc EXCEPT ![w] = "done"]
                /\ whold' = [whold EXCEPT ![w] = <<>>]
                /\ UNCHANGED <<q, sent, passed>>
           ELSE /\ CanSend(it.to)
                /\ q' = [q EXCEPT ![it.to] = Append(@, it.m)]
                /\ passed' = Pass(it.to, it.m)
                /\ whold' = [whold EXCEPT ![w] = Tail(@)]
                /\ sent' = sent \cup StatsItems({it})
                /\ UNCHANGED wpc
    /\ UNCHANGED <<arch0, files, op, fault, pc, gen, hold, joinIdx, buffer,
                   store, pairsSeen, progress, emitted, received, writeLog,
                   stmts, run, store1, removeLog,
                   dvars>>

\* One iteration of `for msg in stats_rcv`, or the end of the loop.
ClimoStatsAdd ==
    /\ pc["stats"] \in {"init", "run"}
    /\ IF StatsConnectFails
       THEN /\ pc' = [pc EXCEPT !["stats"] = "bail"]
            /\ UNCHANGED <<q, buffer, store, writeLog, stmts>>
       ELSE IF CanRecv("stats")
       THEN /\ q' = [q EXCEPT !["stats"] = Tail(@)]
            /\ LET buf == Append(buffer, Head(q["stats"]))
                   res == flush(buf)
               IN  IF Len(buf) = BUFSIZE
                   THEN /\ buffer' = <<>>
                        /\ store' = res.st
                        /\ writeLog' = res.log
                        /\ stmts' = stmts \cup Ran("stats", FlushStmts(buf))
                        /\ pc' = [pc EXCEPT !["stats"] =
                                    IF res.ok THEN "run" ELSE "bail"]
                   ELSE /\ buffer' = buf
                        /\ pc' = [pc EXCEPT !["stats"] = "run"]
                        /\ UNCHANGED <<store, writeLog, stmts>>
       ELSE /\ Closed("stats")
            /\ pc' = [pc EXCEPT !["stats"] = "term"]
            /\ UNCHANGED <<q, buffer, store, writeLog, stmts>>
    /\ UNCHANGED <<arch0, files, op, fault, wpc, gen, hold, whold, joinIdx,
                   pairsSeen, progress, emitted, received, sent, run, store1, hvars,
                   dvars>>

\* .send(DataPopulateMsg::TerminateThread).expect(..) at the end of the
\* LocationUpdater thread.
ClimoLocTerminate ==
    /\ pc["loc"] = "term"
    /\ IF SendFails("comp")
       THEN /\ pc' = [pc EXCEPT !["loc"] = "panicked"]
            /\ UNCHANGED <<q, passed>>
       ELSE /\ CanSend("comp")
            /\ q' = [q EXCEPT !["comp"] = Append(@, TerminateThread)]
            /\ passed' = Pass("comp", TerminateThread)
            /\ pc' = [pc EXCEPT !["loc"] = "done"]
    /\ UNCHANGED <<arch0, files, op, fault, wpc, gen, hold, whold, joinIdx,
                   buffer, store, pairsSeen, progress, emitted, received,
                   sent, writeLog, stmts, run, store1, removeLog,
                   dvars>>

\* The same at the end of the ClimoWriter thread, followed by the drop of
\* its interface.
ClimoStatsTerminate ==
    /\ pc["stats"] = "term"
    /\ SendFails("comp") \/ CanSend("comp")
    /\ q' = IF SendFails("comp")
            THEN q
            ELSE [q EXCEPT !["comp"] = Append(@, TerminateThread)]
    /\ passed' = IF SendFails("comp")
                 THEN passed
                 ELSE Pass("comp", TerminateThread)
    /\ LET res == DropFlush(buffer)
       IN  /\ buffer' = <<>>
           /\ store' = res.st
           /\ writeLog' = res.log
           /\ stmts' = stmts \cup
                Ran("stats", FlushStmts(buffer)
                                \cup (IF res.ok THEN {"VACUUM"} ELSE {}))
           /\ pc' = [pc EXCEPT !["stats"] =
                        IF res.ok /\ ~SendFails("comp") THEN "done" ELSE "panicked"]
    /\ UNCHANGED <<arch0, files, op, fault, wpc, gen, hold, whold, joinIdx,
                   pairsSeen, progress, emitted, received, sent, run, store1, removeLog,
                   dvars>>

\* One iteration of `for msg in comp_notify_rcv` in build_climo, or its end.
\* ThreadError is none of the arms PopulateCompleted, TerminateThread and
\* DataError: it falls to the arm that prints the message.
ClimoCollect ==
    /\ pc["main"] \in {"start", "collect"}
    /\ IF pc["main"] = "start" /\ fault.kind = "main_connect"
       THEN /\ pc' = [pc EXCEPT !["main"] = "failed"]
            /\ UNCHANGED <<q, received, progress, files, removeLog>>
       ELSE IF CanRecv("comp")
       THEN LET m == Head(q["comp"])
                arm == DataErrorArm(m, NumDataErrors(received) + 1)
            IN  /\ q' = [q EXCEPT !["comp"] = Tail(@)]
                /\ received' = Append(received, m)
                /\ CASE m.type = "PopulateCompleted" ->
                          /\ progress' = m.num
                          /\ pc' = [pc EXCEPT !["main"] = "collect"]
                          /\ UNCHANGED <<files, removeLog>>
                     [] m.type = "DataError" ->
                          /\ progress' = m.num
                          /\ files' = arm.files
                          /\ removeLog' = removeLog \o arm.calls
                          /\ pc' = [pc EXCEPT !["main"] =
                                      IF arm.ok THEN "collect" ELSE "failed"]
                     [] OTHER ->
                          /\ pc' = [pc EXCEPT !["main"] = "collect"]
                          /\ UNCHANGED <<progress, files, removeLog>>
       ELSE /\ ClimoClosed("comp")
            /\ pc' = [pc EXCEPT !["main"] = "join"]
            /\ UNCHANGED <<q, received, progress, files, removeLog>>
    /\ UNCHANGED <<arch0, op, fault, wpc, gen, hold, whold, joinIdx, buffer,
                   store, pairsSeen, emitted, sent, writeLog, stmts, run,
                   store1, passed,
                   dvars>>

\* stats_jh.join().unwrap(); Ok(())
ClimoJoin ==
    /\ pc["main"] = "join"
    /\ pc["stats"] \in Term
    /\ pc' = [pc EXCEPT !["main"] =
                IF pc["stats"] = "panicked" THEN "panicked" ELSE "ok"]
    /\ UNCHANGED <<arch0, files, op, fault, q, wpc, gen, hold, whold, joinIdx,
                   buffer, store, pairsSeen, progress, emitted, received,
                   sent, writeLog, stmts, run, store1, hvars,
                   dvars>>

(***************************************************************************)
(* distributions.rs: the empirical distribution of a sample.               *)
(*                                                                         *)
(* An f64 is an integer here: the finite values are 0..MaxVal and the      *)
(* thresholds of the builder, NaN and the two infinities are values        *)
(* outside that range, the infinities below and above every finite value.  *)
(* A usize is UsizeBits wide.                                              *)
(***************************************************************************)
MaxLen == 3

MaxVal == 2

UsizeBits == 16

NaN == -1

INFINITY == 1000000

NEG_INFINITY == 0 - INFINITY

Finite == 0..MaxVal

F64 == Finite \cup {NaN}

Samples == UNION {[1..n -> F64] : n \in 0..MaxLen}

USIZE == 2 ^ UsizeBits

is_nan(v) == v = NaN

\* What a call returns: a value (a sequence of numbers), or a panic.
Ok(fn, v) == [fn |-> fn, panic |-> "", val |-> v]

Panic(fn, msg) == [fn |-> fn, panic |-> msg, val |-> <<>>]

NoResult == [fn |-> "", panic |-> "", val |-> <<>>]

\* Vec::retain(|val| !val.is_nan())
retain(data) == SelectSeq(data, LAMBDA v : ~is_nan(v))

RECURSIVE InsertSorted(_, _)
InsertSorted(s, v) ==
    IF s = <<>> THEN <<v>>
    ELSE IF v <= Head(s) THEN <<v>> \o s
    ELSE <<Head(s)>> \o InsertSorted(Tail(s), v)

\* The sort left out: the data in the order given.
Unsorted(data) == data

\* data.sort_unstable_by(partial_cmp): ascending; the data hold no NaN.
RECURSIVE sort_unstable_by(_)
sort_unstable_by(data) ==
    IF data = <<>> THEN <<>>
    ELSE InsertSorted(sort_unstable_by(Tail(data)), Head(data))

\* CumulativeDistribution::new
new(data) == [made |-> TRUE, sorted_values |-> sort_unstable_by(retain(data))]

\* unsafe presorted_new: the caller has sorted the data and removed the NaN.
IsSorted(s) == \A i \in 1..(Len(s) - 1) : s[i] <= s[i + 1]

presorted_new(data) == [made |-> TRUE, sorted_values |-> data]

NoCd == [made |-> FALSE, sorted_values |-> <<>>]

\* usize arithmetic: an overflow panics when the build checks it and wraps
\* when it does not. The result is <<panic message, value>>.
usize_sub(a, b, checked) ==
    IF a >= b THEN <<"", a - b>>
    ELSE IF checked THEN <<"attempt to subtract with overflow", 0>>
    ELSE <<"", (a - b + USIZE) % USIZE>>

usize_mul(a, b, checked) ==
    IF a * b < USIZE THEN <<"", a * b>>
    ELSE IF checked THEN <<"attempt to multiply with overflow", 0>>
    ELSE <<"", (a * b) % USIZE>>

\* CumulativeDistribution::value_at_percentile
value_at_percentile(sorted_values, percentile, checked) ==
    LET fn == "value_at_percentile"
        m  == usize_sub(Len(sorted_values), 1, checked)
        x  == usize_mul(percentile, m[2], checked)
        index == x[2] \div 100
    IN  IF m[1] # "" THEN Panic(fn, m[1])
        ELSE IF x[1] # "" THEN Panic(fn, x[1])
        ELSE IF index >= Len(sorted_values) THEN Panic(fn, "index out of bounds")
        ELSE Ok(fn, <<sorted_values[index + 1]>>)

\* CumulativeDistribution::deciles: the eleven calls in order, the first
\* panic ending the call.
deciles(sorted_values, checked) ==
    LET vs  == [i \in 1..11 |->
                   value_at_percentile(sorted_values, 10 * (i - 1), checked)]
        bad == {i \in 1..11 : vs[i].panic # ""}
    IN  IF bad = {} THEN Ok("deciles", [i \in 1..11 |-> vs[i].val[1]])
        ELSE Panic("deciles", vs[CHOOSE i \in bad : \A j \in bad : i <= j].panic)

\* slice::binary_search_by(..).unwrap_or_else(|err| err): the index of some
\* element equal to the value (which one is not specified), or else the
\* index where the value would be inserted.
binary_search_by(sorted_values, v) ==
    LET found == {i \in 0..(Len(sorted_values) - 1) : sorted_values[i + 1] = v}
    IN  IF found # {} THEN found
        ELSE {Cardinality({i \in 1..Len(sorted_values) : sorted_values[i] < v})}

\* CumulativeDistribution::percentile_of_value, the search having returned
\* index. Percentile(..) is the tuple constructor: no range check.
percentile_of_value(sorted_values, v, index, checked) ==
    LET fn == "percentile_of_value"
        x  == usize_mul(index, 100, checked)
        m  == usize_sub(Len(sorted_values), 1, checked)
    IN  IF is_nan(v) THEN Panic(fn, "assertion failed: !value.is_nan()")
        ELSE IF x[1] # "" THEN Panic(fn, x[1])
        ELSE IF m[1] # "" THEN Panic(fn, m[1])
        ELSE IF m[2] = 0 THEN Panic(fn, "attempt to divide by zero")
        ELSE Ok(fn, <<x[2] \div m[2]>>)

cdfVars == <<sample, value, debug_build, cd, result>>

bldVars == <<db_rows, all_data, to_ret>>

winVars == <<center, vt, accepted>>

blobVars == <<dec, blob, back>>

\* The library functions, applied to the sample and the value.
New ==
    /\ ~cd.made
    /\ cd' = new(sample)
    /\ UNCHANGED <<sample, value, debug_build, result, bldVars, winVars, blobVars,
                   pvars>>

PresortedNew ==
    /\ ~cd.made
    /\ retain(sample) = sample
    /\ IsSorted(sample)
    /\ cd' = presorted_new(sample)
    /\ UNCHANGED <<sample, value, debug_build, result, bldVars, winVars, blobVars,
                   pvars>>

DecilesCall ==
    /\ cd.made
    /\ result = NoResult
    /\ result' = deciles(cd.sorted_values, debug_build)
    /\ UNCHANGED <<sample, value, debug_build, cd, bldVars, winVars, blobVars,
                   pvars>>

PercentileOfValue ==
    /\ cd.made
    /\ result = NoResult
    /\ \E index \in binary_search_by(cd.sorted_values, value) :
           result' = percentile_of_value(cd.sorted_values, value, index,
                                         debug_build)
    /\ UNCHANGED <<sample, value, debug_build, cd, bldVars, winVars, blobVars,
                   pvars>>

\* No distribution is computed while the pipeline runs.
IdleCdf ==
    /\ sample = <<>>
    /\ value = 0
    /\ debug_build = FALSE
    /\ cd = NoCd
    /\ result = NoResult

(***************************************************************************)
(* climo_db/build_cdf.rs: the window around a day of the year.             *)
(*                                                                         *)
(* A date is a month and a day; a valid time adds the hour. The year of a  *)
(* valid time is never read.                                               *)
(***************************************************************************)
DAYS_IN_YEAR == 365

HOURS_IN_DAY == 24

WINDOW_DAYS == 7

\* The days of the months of 2019, and of a leap year.
DaysInMonth == <<31, 28, 31, 30, 31, 30, 31, 31, 30, 31, 30, 31>>

DaysInLeapMonth == [DaysInMonth EXCEPT ![2] = 29]

Date(m, d) == [month |-> m, day |-> d]

\* Every date a valid time can have.
CalendarDates ==
    UNION {{Date(m, d) : d \in 1..DaysInLeapMonth[m]} : m \in 1..12}

RECURSIVE DaysBefore(_)
DaysBefore(m) == IF m = 1 THEN 0 ELSE DaysBefore(m - 1) + DaysInMonth[m - 1]

\* NaiveDate::from_ymd(2019, 1, 1).with_ordinal(n).unwrap()
with_ordinal(n) ==
    LET m == CHOOSE k \in 1..12 :
                 DaysBefore(k) < n /\ n <= DaysBefore(k) + DaysInMonth[k]
    IN  Date(m, n - DaysBefore(m))

\* target_date + Duration::days(k) for the date of 2019 with ordinal n. The
\* sum can fall in December 2018 or January 2020, months that have the days
\* of those of 2019.
plus_days(n, k) ==
    with_ordinal(((n + k - 1 + DAYS_IN_YEAR) % DAYS_IN_YEAR) + 1)

filter_start(n) == plus_days(n, 0 - WINDOW_DAYS)

filter_end(n) == plus_days(n, WINDOW_DAYS)

\* A window that takes the dates from start to end in the order of the
\* calendar, without the wrap at the end of the year.
make_window_funcNoWrap(start, end, t) ==
    /\ (t.month > start.month \/ (t.month = start.month /\ t.day >= start.day))
    /\ (t.month < end.month \/ (t.month = end.month /\ t.day <= end.day))

\* The closure make_window_func(start, end) returns, applied to t.
make_window_func(start, end, t) ==
    IF start.month < end.month
    THEN \/ (t.month = start.month /\ t.day >= start.day)
         \/ (t.month = end.month /\ t.day <= end.day)
         \/ (t.month > start.month /\ t.month < end.month)
    ELSE IF start.month = end.month
    THEN t.day >= start.day /\ t.day <= end.day
    ELSE \/ (t.month = start.month /\ t.day >= start.day)
         \/ (t.month = end.month /\ t.day <= end.day)
         \/ (t.month > start.month \/ t.month < end.month)

\* in_window of create_deciles for day_of_year n.
in_window(n, t) == make_window_func(filter_start(n), filter_end(n), t)

\* The window of a day of the year asked about a valid time.
InWindow ==
    /\ accepted = <<>>
    /\ center \in 1..DAYS_IN_YEAR
    /\ accepted' = <<in_window(center, vt)>>
    /\ UNCHANGED <<center, vt, cdfVars, bldVars, blobVars, pvars>>

IdleWindow ==
    /\ center = 0
    /\ vt = Date(1, 1)
    /\ accepted = <<>>

(***************************************************************************)
(* climo_db/build_cdf.rs: load_all_data and create_deciles.                *)
(***************************************************************************)
BLOW_UP_MIN == 1000

MaxRows == 2

\* A row of the query: the valid time and the four statistics. A row with a
\* column that cannot be read (a NULL) has ok = FALSE.
Row(d, h, hdw, dt, meters, dcape) ==
    [ok |-> TRUE, vt |-> [month |-> d.month, day |-> d.day, hour |-> h],
     hdw |-> hdw, dt |-> dt, meters |-> meters, dcape |-> dcape]

NullRow(r) == [r EXCEPT !.ok = FALSE]

\* The remapping of load_all_data left out.
Unmapped(r) == r

\* The closure of .map(..) in load_all_data.
Remap(r) ==
    IF r.meters < BLOW_UP_MIN
    THEN [r EXCEPT !.dt = INFINITY, !.meters = NEG_INFINITY]
    ELSE r

\* load_all_data: filter_map(Result::ok), then the remapping.
load_all_data(rows) ==
    LET read == SelectSeq(rows, LAMBDA r : r.ok)
    IN  [i \in 1..Len(read) |-> Remap(read[i])]

NotLoaded == [loaded |-> FALSE, data |-> <<>>]

NotCreated == [fn |-> "", panic |-> "", entries |-> <<>>]

\* data.iter().filter(in_window).filter(vt.hour() == hour): the rows of
\* the bucket, in the order of the data. The first filter gives the same
\* rows for the 24 hours of a day.
InWindowRows(data, start, end) ==
    SelectSeq(data, LAMBDA r : make_window_func(start, end, r.vt))

Bucket(rows, hour) == SelectSeq(rows, LAMBDA r : r.vt.hour = hour)

Column(rows, stat) == [i \in 1..Len(rows) |-> rows[i][stat]]

Stats == <<"hdw", "dt", "meters", "dcape">>

\* One entry for each row of the bucket.
EntryPerRow(rows, n, hour, checked) ==
    [i \in 1..Len(rows) |->
        [panic |-> "", day_of_year |-> n, hour |-> hour,
         dists |-> [s \in 1..4 |->
             deciles(new(Column(rows, Stats[s])).sorted_values, checked).val]]]

\* The body of the loop over the hours: nothing for an empty bucket, else
\* the entry pushed on to_ret, or the panic of the first failing deciles().
HourEntries(rows, n, hour, checked) ==
    IF rows = <<>> THEN <<>>
    ELSE LET ds  == [s \in 1..4 |->
                        deciles(new(Column(rows, Stats[s])).sorted_values,
                                checked)]
             bad == {s \in 1..4 : ds[s].panic # ""}
         IN  IF bad # {}
             THEN <<[panic |-> ds[CHOOSE s \in bad : \A u \in bad : s <= u].panic,
                     day_of_year |-> n, hour |-> hour, dists |-> <<>>]>>
             ELSE <<[panic |-> "", day_of_year |-> n, hour |-> hour,
                     dists |-> [s \in 1..4 |-> ds[s].val]]>>

\* The loop over the hours of day n, from hour on; rows are the rows in the
\* window of the day.
RECURSIVE HoursFrom(_, _, _, _)
HoursFrom(rows, n, hour, checked) ==
    IF hour >= HOURS_IN_DAY \/ rows = <<>> THEN <<>>
    ELSE HourEntries(Bucket(rows, hour), n, hour, checked)
             \o HoursFrom(rows, n, hour + 1, checked)

\* filter_start and filter_end of each day_of_year.
Windows == [n \in 1..DAYS_IN_YEAR |-> <<filter_start(n), filter_end(n)>>]

\* The loop over the days lo..hi, the entries in the order of the days.
RECURSIVE DaysFrom(_, _, _, _)
DaysFrom(data, lo, hi, checked) ==
    IF lo > hi THEN <<>>
    ELSE IF lo = hi
    THEN HoursFrom(InWindowRows(data, Windows[lo][1], Windows[lo][2]),
                   lo, 0, checked)
    ELSE LET mid == (lo + hi) \div 2
         IN  DaysFrom(data, lo, mid, checked)
                 \o DaysFrom(data, mid + 1, hi, checked)

\* create_deciles: the entries pushed in the order of the loops; a panic
\* ends the call at the first entry that panics.
create_deciles(data, checked) ==
    LET all == DaysFrom(data, 1, DAYS_IN_YEAR, checked)
        bad == {i \in 1..Len(all) : all[i].panic # ""}
    IN  IF bad = {}
        THEN [fn |-> "create_deciles", panic |-> "", entries |-> all]
        ELSE [fn |-> "create_deciles",
              panic |-> all[CHOOSE i \in bad : \A j \in bad : i <= j].panic,
              entries |-> <<>>]

LoadAllData ==
    /\ ~all_data.loaded
    /\ all_data' = [loaded |-> TRUE, data |-> load_all_data(db_rows)]
    /\ UNCHANGED <<db_rows, to_ret, cdfVars, winVars, blobVars, pvars>>

CreateDeciles ==
    /\ all_data.loaded
    /\ to_ret = NotCreated
    /\ to_ret' = create_deciles(all_data.data, debug_build)
    /\ UNCHANGED <<db_rows, all_data, cdfVars, winVars, blobVars, pvars>>

IdleBuilder ==
    /\ db_rows = <<>>
    /\ all_data = NotLoaded
    /\ to_ret = NotCreated

(***************************************************************************)
(* distributions.rs: Deciles as a blob.                                    *)
(*                                                                         *)
(* A double is its 8 bytes, the byte with the sign first. bincode writes   *)
(* the struct as its array, the array as its 11 elements without a length, *)
(* and a double as its bytes from the least significant one.               *)
(***************************************************************************)
NUM_DECILES == 11

F64_BYTES == 8

\* 0.0, 1.0, -infinity, a NaN, and a double of eight different bytes.
Doubles ==
    {<<0, 0, 0, 0, 0, 0, 0, 0>>, <<63, 240, 0, 0, 0, 0, 0, 0>>,
     <<255, 240, 0, 0, 0, 0, 0, 0>>, <<127, 248, 0, 0, 0, 0, 0, 1>>,
     <<64, 9, 33, 251, 84, 68, 45, 24>>}

Reverse(s) == [i \in 1..Len(s) |-> s[Len(s) + 1 - i]]

f64_to_le_bytes(d) == Reverse(d)

\* The bytes read from the most significant one.
f64_from_be_bytes(b) == b

f64_from_le_bytes(b) == Reverse(b)

RECURSIVE Concat(_)
Concat(ss) == IF ss = <<>> THEN <<>> ELSE Head(ss) \o Concat(Tail(ss))

\* Deciles::as_bytes: bincode::serialize(self)
as_bytes(d) == Concat([i \in 1..NUM_DECILES |-> f64_to_le_bytes(d[i])])

NotRead == [fn |-> "", err |-> "", deciles |-> <<>>]

\* Deciles::from_reader: bincode::deserialize_from(reader)
from_reader(bytes) ==
    IF Len(bytes) < NUM_DECILES * F64_BYTES
    THEN [fn |-> "from_reader", err |-> "io error: unexpected end of file",
          deciles |-> <<>>]
    ELSE [fn |-> "from_reader", err |-> "",
          deciles |-> [i \in 1..NUM_DECILES |->
              f64_from_le_bytes(SubSeq(bytes, (i - 1) * F64_BYTES + 1,
                                       i * F64_BYTES))]]

AsBytes ==
    /\ dec # <<>>
    /\ blob = <<>>
    /\ blob' = as_bytes(dec)
    /\ UNCHANGED <<dec, back, cdfVars, bldVars, winVars, pvars>>

FromReader ==
    /\ blob # <<>>
    /\ back = NotRead
    /\ back' = from_reader(blob)
    /\ UNCHANGED <<dec, blob, cdfVars, bldVars, winVars, pvars>>

IdleBlob ==
    /\ dec = <<>>
    /\ blob = <<>>
    /\ back = NotRead

(***************************************************************************)
(* The LocationUpdater thread and the collector of build_climo in          *)
(* src/builder.rs.                                                         *)
(***************************************************************************)
\* What start_location_stats_thread sends for one message: for a lead-zero
\* Location the record or a DataError, and after either, as for every other
\* Location, Completed{num}.
LibLocOutput(m) ==
    IF m.type = "Location"
    THEN (IF LeadZero(m.snd)
          THEN IF m.snd.loc # NoLoc
               THEN <<Item("stats", create_location_data(m.pair, m.time,
                                                         m.snd).rec)>>
               ELSE <<Item("comp", Msg("DataError", m.num, <<m.pair, m.time>>,
                                       NoSnd, NoData,
                                       "Missing location information"))>>
          ELSE <<>>)
         \o <<Item("comp", Msg("Completed", m.num, <<0, NoTime>>, NoSnd,
                               NoData, ""))>>
    ELSE <<Item("comp", m)>>

\* One iteration of `for msg in location_requests`, or the end of the loop.
LibLocRecv ==
    /\ pc["loc"] = "run"
    /\ hold["loc"] = <<>>
    /\ CanRecv("loc") \/ Closed("loc")
    /\ IF CanRecv("loc")
       THEN /\ hold' = [hold EXCEPT !["loc"] = LibLocOutput(Head(q["loc"]))]
            /\ q' = [q EXCEPT !["loc"] = Tail(@)]
            /\ UNCHANGED pc
       ELSE /\ pc' = [pc EXCEPT !["loc"] = "done"]
            /\ UNCHANGED <<q, hold>>
    /\ UNCHANGED <<arch0, files, op, fault, wpc, gen, whold, joinIdx, buffer,
                   store, pairsSeen, progress, emitted, received, sent,
                   writeLog, stmts, run, store1, hvars, dvars>>

\* .send(message).map_err(|err| err.to_string())?
LibLocSend ==
    /\ pc["loc"] = "run"
    /\ hold["loc"] # <<>>
    /\ LET it == Head(hold["loc"])
       IN  IF SendFails(it.to)
           THEN /\ pc' = [pc EXCEPT !["loc"] = "failed"]
                /\ hold' = [hold EXCEPT !["loc"] = <<>>]
                /\ UNCHANGED <<q, sent, passed>>
           ELSE /\ CanSend(it.to)
                /\ q' = [q EXCEPT ![it.to] = Append(@, it.m)]
                /\ passed' = Pass(it.to, it.m)
                /\ hold' = [hold EXCEPT !["loc"] = Tail(@)]
                /\ sent' = sent \cup StatsItems({it})
                /\ UNCHANGED pc
    /\ UNCHANGED <<arch0, files, op, fault, wpc, gen, whold, joinIdx, buffer,
                   store, pairsSeen, progress, emitted, received, writeLog,
                   stmts, run, store1, removeLog, dvars>>

\* One iteration of `for msg in comp_notify_rcv` in build_climo, or its end.
LibCollect ==
    /\ pc["main"] \in {"start", "collect"}
    /\ CanRecv("comp") \/ Closed("comp")
    /\ IF CanRecv("comp")
       THEN LET m == Head(q["comp"])
                arm == DataErrorArm(m, NumDataErrors(received) + 1)
            IN  /\ q' = [q EXCEPT !["comp"] = Tail(@)]
                /\ received' = Append(received, m)
                /\ CASE m.type = "Completed" ->
                          /\ progress' = m.num
                          /\ pc' = [pc EXCEPT !["main"] = "collect"]
                          /\ UNCHANGED <<files, removeLog>>
                     [] m.type = "DataError" ->
                          /\ progress' = m.num
                          /\ files' = arm.files
                          /\ removeLog' = removeLog \o arm.calls
                          /\ pc' = [pc EXCEPT !["main"] =
                                      IF arm.ok THEN "collect" ELSE "failed"]
                     [] OTHER ->
                          /\ pc' = [pc EXCEPT !["main"] = "collect"]
                          /\ UNCHANGED <<progress, files, removeLog>>
       ELSE /\ pc' = [pc EXCEPT !["main"] = "join"]
            /\ UNCHANGED <<q, received, progress, files, removeLog>>
    /\ UNCHANGED <<arch0, op, fault, wpc, gen, hold, whold, joinIdx, buffer,
                   store, pairsSeen, emitted, sent, writeLog, stmts, run,
                   store1, passed, dvars>>

(***************************************************************************)
(* ClimoPopulateInterface on its own: add, flush and Drop, statement by    *)
(* statement (climo_db/populate.rs).  The store fails at most one          *)
(* statement of a run; SQLite also refuses a BEGIN inside a transaction.   *)
(***************************************************************************)
MaxAdds == 5
MaxFailAt == 6

\* The records a caller adds.
IfaceRecords ==
    {create_cli_data(1, 0, Snd(1, 0, 1, "ok")),
     create_location_data(1, 0, Snd(1, 0, 1, "ok")).rec}

NoEnv == [fail_at |-> 0, debug |-> FALSE, rollback |-> FALSE]

NewIface ==
    [write_buffer |-> <<>>, in_tx |-> FALSE, pending |-> <<>>, rows |-> <<>>,
     dropped |-> FALSE]

\* The interface and its connection as one value st that the functions
\* below take and return: ok is the result of the last statement, ret that
\* of the function.
IfaceState ==
    [write_buffer |-> iface.write_buffer, in_tx |-> iface.in_tx,
     pending |-> iface.pending, rows |-> iface.rows, log |-> conn,
     ok |-> TRUE, ret |-> "none"]

\* conn.execute(stmt, ..) and Statement::execute(..): the statement is
\* logged with its outcome; a successful INSERT writes its row into the open
\* transaction, COMMIT makes the rows of the transaction durable.  After a
\* failing COMMIT the transaction is still open (SQLITE_BUSY) or has been
\* rolled back by SQLite (SQLITE_FULL, SQLITE_IOERR): env.rollback.
execute(st, stmt, rec) ==
    LET fails == \/ env.fail_at = Len(st.log) + 1
                 \/ stmt = "BEGIN TRANSACTION" /\ st.in_tx
                 \/ stmt = "COMMIT TRANSACTION" /\ ~st.in_tx
        logged == [st EXCEPT !.ok = ~fails,
                             !.log = Append(@, [stmt |-> stmt, rec |-> rec,
                                                ok |-> ~fails,
                                                in_tx |-> st.in_tx])]
    IN  IF fails
        THEN IF stmt = "COMMIT TRANSACTION" /\ env.rollback
             THEN [logged EXCEPT !.in_tx = FALSE, !.pending = <<>>]
             ELSE logged
        ELSE CASE stmt = "BEGIN TRANSACTION" -> [logged EXCEPT !.in_tx = TRUE]
               [] stmt = "COMMIT TRANSACTION" ->
                     [logged EXCEPT !.in_tx = FALSE,
                                    !.rows = @ \o st.pending,
                                    !.pending = <<>>]
               [] stmt = "INSERT" ->
                     IF st.in_tx
                     THEN [logged EXCEPT !.pending = @ \o rec]
                     ELSE [logged EXCEPT !.rows = @ \o rec]
               [] OTHER -> logged

\* flush after BEGIN: the loop over write_buffer.drain(..), which leaves
\* the buffer empty however it ends, and the COMMIT on either way out.
RECURSIVE iface_drain(_, _)
iface_drain(st, records) ==
    IF records = <<>>
    THEN LET c == execute(st, "COMMIT TRANSACTION", <<>>)
         IN  [c EXCEPT !.ret = IF c.ok THEN "Ok" ELSE "Err(commit)"]
    ELSE LET i == execute(st, "INSERT", <<Head(records)>>)
         IN  IF i.ok
             THEN iface_drain(i, Tail(records))
             ELSE LET c == execute(i, "COMMIT TRANSACTION", <<>>)
                  IN  [c EXCEPT !.ret = IF c.ok THEN "Err(insert)"
                                        ELSE "Err(commit)"]

\* ClimoPopulateInterface::flush.  A failing BEGIN returns before the buffer
\* is drained.
iface_flush(st) ==
    LET b == execute(st, "BEGIN TRANSACTION", <<>>)
    IN  IF b.ok
        THEN iface_drain([b EXCEPT !.write_buffer = <<>>], st.write_buffer)
        ELSE [b EXCEPT !.ret = "Err(begin)"]

\* An add that never flushes.
iface_addNoFlush(st, record) ==
    [st EXCEPT !.write_buffer = Append(@, record), !.ret = "Ok"]

\* ClimoPopulateInterface::add.  The debug_assert! is compiled into debug
\* builds only.
iface_add(st, record) ==
    IF env.debug /\ Len(st.write_buffer) > BUFSIZE
    THEN [st EXCEPT !.ret = "Panic"]
    ELSE LET pushed == [st EXCEPT !.write_buffer = Append(@, record)]
         IN  IF Len(pushed.write_buffer) = BUFSIZE
             THEN iface_flush(pushed)
             ELSE [pushed EXCEPT !.ret = "Ok"]

\* Drop: self.flush().unwrap(), then VACUUM .. unwrap().
iface_drop(st) ==
    LET f == iface_flush(st)
    IN  IF f.ret = "Ok"
        THEN LET v == execute(f, "VACUUM", <<>>)
             IN  [v EXCEPT !.ret = IF v.ok THEN "Ok" ELSE "Panic"]
        ELSE [f EXCEPT !.ret = "Panic"]

\* What a call left behind, and its entry in the history of calls.
Returned(fn, st) ==
    /\ iface' = [write_buffer |-> st.write_buffer, in_tx |-> st.in_tx,
                 pending |-> st.pending, rows |-> st.rows,
                 dropped |-> fn = "drop" \/ st.ret = "Panic"]
    /\ conn' = st.log
    /\ calls' = Append(calls, [fn |-> fn, ret |-> st.ret,
                               len_before |-> Len(iface.write_buffer),
                               len_after |-> Len(st.write_buffer),
                               from |-> Len(conn) + 1, to |-> Len(st.log)])

\* A caller adds a record.
IfaceAdd ==
    /\ ~iface.dropped
    /\ Len(calls) < MaxAdds
    /\ \E record \in IfaceRecords : Returned("add", iface_add(IfaceState, record))
    /\ UNCHANGED <<env, ifaceRest>>

\* The interface goes out of scope.
IfaceDrop ==
    /\ ~iface.dropped
    /\ Returned("drop", iface_drop(IfaceState))
    /\ UNCHANGED <<env, ifaceRest>>

IdleIface ==
    /\ env = NoEnv
    /\ iface = NewIface
    /\ conn = <<>>
    /\ calls = <<>>


(***************************************************************************)
(* The distribution build: the CDFMaster thread, its pool of CDFBuilder    *)
(* jobs, the CDFDbAdder thread and the main loop                           *)
(* (bin/bufcli/builder/deciles.rs), with the write side of                 *)
(* ClimoCDFBuilderInterface (climo_db/build_cdf.rs).  The pool has         *)
(* POOL_SIZE jobs and the three channels CAPACITY slots; create_deciles is *)
(* reduced to the number of decile rows it returns for a pair.             *)
(***************************************************************************)
CDF_BUFSIZE == 2
MaxPairs == 3
MaxBuckets == 2

CdfChans == {"data", "db_add", "main"}

NoCdfMsg == [type |-> "none"]

NewCdfDb ==
    [in_tx |-> FALSE, buffer |-> <<>>, pending |-> <<>>, rows |-> <<>>,
     log |-> <<>>, passed |-> <<>>, ok |-> TRUE]

\* The changed sets and what goes wrong in a run: nothing, a connect of one
\* of the two threads, or load_all_data for the pair numbered at.
CdfInputs ==
    {[buckets |-> b, fault |-> f, at |-> a] :
        b \in UNION {[1..n -> 0..MaxBuckets] : n \in 0..MaxPairs},
        f \in {"none", "master_connect", "adder_connect", "load"},
        a \in 0..MaxPairs} 

\* stats_conn.execute(stmt, ..): SQLite refuses a BEGIN inside a
\* transaction and a COMMIT outside of one.
cdf_execute(db, stmt, recs) ==
    LET fails == \/ stmt = "BEGIN TRANSACTION" /\ db.in_tx
                 \/ stmt = "COMMIT TRANSACTION" /\ ~db.in_tx
        logged == [db EXCEPT !.ok = ~fails,
                             !.log = Append(@, [stmt |-> stmt, ok |-> ~fails,
                                                in_tx |-> db.in_tx])]
    IN  IF fails THEN logged
        ELSE CASE stmt = "BEGIN TRANSACTION" -> [logged EXCEPT !.in_tx = TRUE]
               [] stmt = "COMMIT TRANSACTION" ->
                     [logged EXCEPT !.in_tx = FALSE,
                                    !.rows = @ \o db.pending,
                                    !.pending = <<>>]
               [] OTHER -> [logged EXCEPT !.pending = @ \o recs]

\* ClimoCDFBuilderInterface::flush: BEGIN TRANSACTION, one insert for each
\* drained record, COMMIT TRANSACTION.
RECURSIVE cdf_inserts(_, _)
cdf_inserts(db, records) ==
    IF records = <<>> THEN db
    ELSE cdf_inserts(cdf_execute(db, "INSERT", <<Head(records)>>),
                     Tail(records))

cdf_flush(db) ==
    LET b == cdf_execute(db, "BEGIN TRANSACTION", <<>>)
    IN  IF b.ok
        THEN cdf_execute(cdf_inserts([b EXCEPT !.buffer = <<>>], db.buffer),
                         "COMMIT TRANSACTION", <<>>)
        ELSE b

\* ClimoCDFBuilderInterface::add_to_db.
add_to_db(db, record) ==
    LET pushed == [db EXCEPT !.buffer = Append(@, record),
                             !.passed = Append(@, record), !.ok = TRUE]
    IN  IF Len(pushed.buffer) >= CDF_BUFSIZE THEN cdf_flush(pushed) ELSE pushed

\* begin_transaction and commit_transaction of ClimoCDFBuilderInterface,
\* called by the CDFDbAdder: the statement on stats_conn.
begin_transaction(db) == cdf_execute(db, "BEGIN TRANSACTION", <<>>)

commit_transaction(db) == cdf_execute(db, "COMMIT TRANSACTION", <<>>)

\* A CDFDbAdder that acknowledges a pair without adding its rows.
cdfsNone(m) == <<>>

\* cdfs.into_iter() of a CDFDBAdd message: the decile rows of the pair.
cdfs(m) == [i \in 1..m.n |-> <<m.pair, i>>]

\* The loop over the rows of a message, left at the first error.
RECURSIVE add_all(_, _)
add_all(db, records) ==
    IF records = <<>> THEN [db EXCEPT !.ok = TRUE]
    ELSE LET d == add_to_db(db, Head(records))
         IN  IF d.ok THEN add_all(d, Tail(records)) ELSE d

CdfEnded == {"done", "failed", "panicked"}

\* A CDFMaster that keeps data_snd for ever.
DataSenderKept == TRUE

\* The ends of the three channels that are still held.
DataSenderAlive == cpc["master"] \in {"connect", "load", "send"}

DataReceiverAlive == \E w \in Workers : cw[w].pc \in {"recv", "send"}

DbAddSenderAlive == \E w \in Workers : cw[w].pc \in {"recv", "send"}

DbAddReceiverAlive == cpc["adder"] \notin CdfEnded

CdfRoom(ch) == Len(cq[ch]) < CAPACITY

\* CDFMaster: connect_or_create and initialize after the pool was started.
MasterStart ==
    /\ cpc["master"] = "connect"
    /\ cpc' = [cpc EXCEPT !["master"] =
                 IF cin.fault = "master_connect" THEN "failed" ELSE "load"]
    /\ UNCHANGED <<cin, ctodo, cq, chold, cw, cdb, cgot, decRest>>

\* CDFMaster: the next pair of set.into_iter() and its load_all_data; after
\* the last pair data_snd is dropped.
MasterLoad ==
    /\ cpc["master"] = "load"
    /\ IF ctodo = {}
       THEN /\ cpc' = [cpc EXCEPT !["master"] = "join"]
            /\ UNCHANGED <<ctodo, chold>>
       ELSE \E p \in ctodo :
               /\ ctodo' = ctodo \ {p}
               /\ IF cin.fault = "load" /\ cin.at = p
                  THEN /\ cpc' = [cpc EXCEPT !["master"] = "failed"]
                       /\ UNCHANGED chold
                  ELSE /\ cpc' = [cpc EXCEPT !["master"] = "send"]
                       /\ chold' = [chold EXCEPT !["master"] =
                                      [type |-> "HourlyCDFData", pair |-> p,
                                       n |-> cin.buckets[p]]]
    /\ UNCHANGED <<cin, cq, cw, cdb, cgot, decRest>>

\* CDFMaster: data_snd.send(msg)?, which waits for a slot and fails when
\* no job holds a receiver any more.
MasterSend ==
    /\ cpc["master"] = "send"
    /\ IF DataReceiverAlive
       THEN /\ CdfRoom("data")
            /\ cq' = [cq EXCEPT !["data"] = Append(@, chold["master"])]
            /\ cpc' = [cpc EXCEPT !["master"] = "load"]
       ELSE /\ cpc' = [cpc EXCEPT !["master"] = "failed"]
            /\ UNCHANGED cq
    /\ chold' = [chold EXCEPT !["master"] = NoCdfMsg]
    /\ UNCHANGED <<cin, ctodo, cw, cdb, cgot, decRest>>

\* CDFMaster: pool.join() returns when every job has ended or panicked.
MasterJoin ==
    /\ cpc["master"] = "join"
    /\ \A w \in Workers : cw[w].pc \in CdfEnded
    /\ cpc' = [cpc EXCEPT !["master"] = "done"]
    /\ UNCHANGED <<cin, ctodo, cq, chold, cw, cdb, cgot, decRest>>

\* A pool job takes a message and builds the deciles of its sample.
CdfWorkerRecv(w) ==
    /\ cw[w].pc = "recv"
    /\ cq["data"] # <<>>
    /\ LET msg == Head(cq["data"])
       IN  cw' = [cw EXCEPT ![w] =
                    [pc |-> "send",
                     hold |-> IF msg.type = "HourlyCDFData"
                              THEN [type |-> "CDFDBAdd", pair |-> msg.pair,
                                    n |-> msg.n]
                              ELSE msg]]
    /\ cq' = [cq EXCEPT !["data"] = Tail(@)]
    /\ UNCHANGED <<cin, ctodo, cpc, chold, cdb, cgot, decRest>>

\* local_db_add_send.send(msg).unwrap(): the job panics when the CDFDbAdder
\* has dropped the receiver.
CdfWorkerSend(w) ==
    /\ cw[w].pc = "send"
    /\ IF DbAddReceiverAlive
       THEN /\ CdfRoom("db_add")
            /\ cq' = [cq EXCEPT !["db_add"] = Append(@, cw[w].hold)]
            /\ cw' = [cw EXCEPT ![w] = [pc |-> "recv", hold |-> NoCdfMsg]]
       ELSE /\ cw' = [cw EXCEPT ![w] = [pc |-> "panicked", hold |-> NoCdfMsg]]
            /\ UNCHANGED cq
    /\ UNCHANGED <<cin, ctodo, cpc, chold, cdb, cgot, decRest>>

\* The loop of a job ends when the data channel is empty and disconnected.
CdfWorkerEnd(w) ==
    /\ cw[w].pc = "recv"
    /\ cq["data"] = <<>>
    /\ ~DataSenderAlive
    /\ cw' = [cw EXCEPT ![w].pc = "done"]
    /\ UNCHANGED <<cin, ctodo, cq, cpc, chold, cdb, cgot, decRest>>

\* The CDFDbAdder returns: Drop of its interface flushes and unwraps.
AdderReturns(db, ret) ==
    LET f == cdf_flush(db)
    IN  /\ cdb' = f
        /\ cpc' = [cpc EXCEPT !["adder"] = IF f.ok THEN ret ELSE "panicked"]

\* CDFDbAdder: connect_or_create, initialize and begin_transaction.
AdderStart ==
    /\ cpc["adder"] = "connect"
    /\ IF cin.fault = "adder_connect"
       THEN /\ cpc' = [cpc EXCEPT !["adder"] = "failed"]
            /\ UNCHANGED cdb
       ELSE LET b == begin_transaction(NewCdfDb)
            IN  IF b.ok
                THEN /\ cdb' = b
                     /\ cpc' = [cpc EXCEPT !["adder"] = "recv"]
                ELSE AdderReturns(b, "failed")
    /\ UNCHANGED <<cin, ctodo, cq, chold, cw, cgot, decRest>>

\* CDFDbAdder: one message of db_add_receiver; the rows of a CDFDBAdd go
\* to add_to_db before its CDFStatsCompleted is made.
AdderRecv ==
    /\ cpc["adder"] = "recv"
    /\ cq["db_add"] # <<>>
    /\ LET msg == Head(cq["db_add"])
           d == add_all(cdb, cdfs(msg))
       IN  IF msg.type # "CDFDBAdd"
           THEN /\ chold' = [chold EXCEPT !["adder"] = msg]
                /\ cpc' = [cpc EXCEPT !["adder"] = "send"]
                /\ UNCHANGED cdb
           ELSE IF d.ok
                THEN /\ cdb' = d
                     /\ chold' = [chold EXCEPT !["adder"] =
                                    [type |-> "CDFStatsCompleted",
                                     pair |-> msg.pair]]
                     /\ cpc' = [cpc EXCEPT !["adder"] = "send"]
                ELSE /\ AdderReturns(d, "failed")
                     /\ UNCHANGED chold
    /\ cq' = [cq EXCEPT !["db_add"] = Tail(@)]
    /\ UNCHANGED <<cin, ctodo, cw, cgot, decRest>>

\* CDFDbAdder: to_main.send(msg)?; the main loop holds the receiver until
\* this thread has dropped the sender.
AdderSend ==
    /\ cpc["adder"] = "send"
    /\ CdfRoom("main")
    /\ cq' = [cq EXCEPT !["main"] = Append(@, chold["adder"])]
    /\ chold' = [chold EXCEPT !["adder"] = NoCdfMsg]
    /\ cpc' = [cpc EXCEPT !["adder"] = "recv"]
    /\ UNCHANGED <<cin, ctodo, cw, cdb, cgot, decRest>>

\* CDFDbAdder: its input is empty and disconnected; commit_transaction.
AdderClose ==
    /\ cpc["adder"] = "recv"
    /\ cq["db_add"] = <<>>
    /\ ~DbAddSenderAlive
    /\ LET c == commit_transaction(cdb)
       IN  AdderReturns(c, IF c.ok THEN "done" ELSE "failed")
    /\ UNCHANGED <<cin, ctodo, cq, chold, cw, cgot, decRest>>

\* build: one message of from_cdf_builder.
CdfMainRecv ==
    /\ cpc["main"] = "recv"
    /\ cq["main"] # <<>>
    /\ cgot' = Append(cgot, Head(cq["main"]))
    /\ cq' = [cq EXCEPT !["main"] = Tail(@)]
    /\ UNCHANGED <<cin, ctodo, cpc, chold, cw, cdb, decRest>>

\* build: the loop ends when the CDFDbAdder has dropped to_main.
CdfMainClose ==
    /\ cpc["main"] = "recv"
    /\ cq["main"] = <<>>
    /\ cpc["adder"] \in CdfEnded
    /\ cpc' = [cpc EXCEPT !["main"] = "join"]
    /\ UNCHANGED <<cin, ctodo, cq, chold, cw, cdb, cgot, decRest>>

\* build: jh_calc.join().expect(..)?, then jh_db_add.join().expect(..)?.
CdfMainJoin ==
    /\ cpc["main"] = "join"
    /\ cpc["master"] \in CdfEnded
    /\ cpc' = [cpc EXCEPT !["main"] =
                 IF cpc["master"] = "failed" THEN "failed"
                 ELSE cpc["adder"]]
    /\ UNCHANGED <<cin, ctodo, cq, chold, cw, cdb, cgot, decRest>>

\* build has called start_deciles_builder.
StartedDeciles(input) ==
    /\ cin = input
    /\ ctodo = DOMAIN input.buckets
    /\ cq = [ch \in CdfChans |-> <<>>]
    /\ cpc = [t \in {"master", "adder", "main"} |->
                IF t = "main" THEN "recv" ELSE "connect"]
    /\ chold = [t \in {"master", "adder"} |-> NoCdfMsg]
    /\ cw = [w \in Workers |-> [pc |-> "recv", hold |-> NoCdfMsg]]
    /\ cdb = NewCdfDb
    /\ cgot = <<>>

IdleDeciles ==
    StartedDeciles([buckets |-> <<>>, fault |-> "none", at |-> 0])


(***************************************************************************)
(* ClimoQueryInterface::hourly_deciles (climo_db/query.rs): the year given *)
(* to each row of the deciles table, and the rows kept.  A time is a year  *)
(* and a day of that year (ordinal); every time is at 00Z.                 *)
(***************************************************************************)
MaxQueryRows == 2

StartYears == {2019, 2020}
StartDays == {1, 60, 335, 365}
Spans == {1, 31, 62, 365}
RowDays == {1, 31, 32, 100, 334, 335, 365}

IsLeapYear(y) == (y % 4 = 0 /\ y % 100 # 0) \/ y % 400 = 0

DaysOfYear(y) == IF IsLeapYear(y) THEN 366 ELSE 365

\* start_time + Duration::days(n), for n of at most a year.
PlusDays(t, n) ==
    IF t.ordinal + n <= DaysOfYear(t.year)
    THEN [year |-> t.year, ordinal |-> t.ordinal + n]
    ELSE [year |-> t.year + 1, ordinal |-> t.ordinal + n - DaysOfYear(t.year)]

TimeNotAfter(a, b) ==
    a.year < b.year \/ (a.year = b.year /\ a.ordinal <= b.ordinal)

Unreachable == 0

\* let year = if .. else if .. else { unreachable!() }.
year_of_row(start_time, end_time, day_of_year) ==
    IF start_time.year = end_time.year \/ day_of_year >= start_time.ordinal
    THEN start_time.year
    ELSE IF day_of_year <= end_time.ordinal
         THEN end_time.year
         ELSE Unreachable

\* hourly_deciles: every row of the site and model is given a year, then
\* the rows outside of start_time..end_time are filtered out.
hourly_deciles(start_time, end_time, query_rows) ==
    LET valid_times ==
            [i \in DOMAIN query_rows |->
                [year |-> year_of_row(start_time, end_time, query_rows[i]),
                 ordinal |-> query_rows[i]]]
        InRange(valid_time) ==
            TimeNotAfter(valid_time, end_time) /\ TimeNotAfter(start_time, valid_time)
    IN  IF \E i \in DOMAIN valid_times : valid_times[i].year = Unreachable
        THEN [ret |-> "Panic", data |-> <<>>]
        ELSE [ret |-> "Ok", data |-> SelectSeq(valid_times, InRange)]

NotCalled == [ret |-> "none", data |-> <<>>]

\* start_time < end_time less than 366 days apart, and rows with a day of
\* the year in 1..=365.
QueryInputs ==
    {[start_time |-> s, end_time |-> PlusDays(s, n), rows |-> r] :
        s \in [year : StartYears, ordinal : StartDays],
        n \in Spans,
        r \in UNION {[1..k -> RowDays] : k \in 1..MaxQueryRows}}

QueryCall ==
    /\ returned = NotCalled
    /\ range.rows # <<>>
    /\ returned' = hourly_deciles(range.start_time, range.end_time, range.rows)
    /\ UNCHANGED <<range, queryRest>>

IdleQuery ==
    /\ range = [start_time |-> [year |-> 2019, ordinal |-> 1],
                end_time |-> [year |-> 2019, ordinal |-> 1], rows |-> <<>>]
    /\ returned = NotCalled

\* The other state machines at rest.
IdleRest == IdleIface /\ IdleDeciles /\ IdleQuery

(***************************************************************************)
(* A second run of the pipeline over the archive and the store as the      *)
(* first run left them: `bufcli build` or `bufcli update` once more.       *)
(***************************************************************************)
Ops == {"build", "update"}

Rerun ==
    /\ pc["main"] = "ok"
    /\ run < MaxRuns
    /\ run' = run + 1
    /\ store1' = store
    /\ op' \in Ops
    /\ q' = Fresh.q
    /\ pc' = Fresh.pc
    /\ wpc' = [w \in Workers |-> "run"]
    /\ gen' = Fresh.gen
    /\ hold' = Fresh.hold
    /\ whold' = [w \in Workers |-> <<>>]
    /\ joinIdx' = 1
    /\ buffer' = <<>>
    /\ pairsSeen' = {}
    /\ progress' = 0
    /\ emitted' = 0
    /\ received' = <<>>
    /\ sent' = {}
    /\ writeLog' = <<>>
    /\ stmts' = {}
    /\ passed' = NonePassed
    /\ removeLog' = <<>>
    /\ UNCHANGED <<arch0, files, fault, store, dvars>>

(***************************************************************************)
(* Specifications.                                                         *)
(***************************************************************************)
\* The failures of the environment, one per run.
MaxFaultAt == 2

AllFaults ==
    {Fault(k, 0) : k \in {"gen_connect", "gen_init_times", "load_connect",
                          "stats_connect", "main_connect"}}
        \cup {Fault("insert", n) : n \in 1..MaxFaultAt}
        \cup {Fault("file_exists", 1), Fault("remove", 1)}

InitInputs(archives, faults) ==
    /\ arch0 \in archives
    /\ files = DOMAIN arch0
    /\ op = "build"
    /\ fault \in faults
    /\ store = EmptyStore
    /\ run = 1
    /\ store1 = EmptyStore

\* A first run (`build`, the store still empty) without failures.
Init ==
    /\ InitInputs(Archives, {NoFault}) /\ InitRun
    /\ IdleCdf /\ IdleBuilder /\ IdleWindow /\ IdleBlob /\ IdleRest

\* A first run in which one call fails, over the archives whose files hold
\* well-formed soundings or fail to decode: one file, or several files with
\* at most MaxFaultTotal soundings.
MaxFaultTotal == 1

FaultArchives ==
    UNION {ArchivesOver({k}, CleanContentsOf) : k \in FileKeys}
        \cup {a \in CleanArchives : NumSoundings(a) <= MaxFaultTotal}

InitFault ==
    /\ InitInputs(FaultArchives, AllFaults) /\ InitRun
    /\ IdleCdf /\ IdleBuilder /\ IdleWindow /\ IdleBlob /\ IdleRest

NextRun ==
    \/ GenNextPair \/ GenSend \/ GenFinish
    \/ LoadRecv \/ LoadSend
    \/ ParserRecv \/ ParserSend
    \/ \E w \in Workers : WorkerRecv(w)
    \/ \E w \in Workers : WorkerSend(w)
    \/ CliJoin
    \/ LocRecv \/ LocSend
    \/ StatsAdd \/ StatsClose
    \/ MainCollect \/ MainJoin

Next == NextRun

NextRerun == NextRun \/ Rerun

\* build_climo, without a failure or with one failing call.
ClimoFaults ==
    {NoFault, Fault("insert", 1)}
        \cup {Fault(k, 0) : k \in {"gen_connect", "gen_init_times",
                                   "load_connect", "stats_connect",
                                   "main_connect"}}

InitClimo ==
    /\ InitInputs(FaultArchives, ClimoFaults) /\ InitRun
    /\ IdleCdf /\ IdleBuilder /\ IdleWindow /\ IdleBlob /\ IdleRest

NextClimo ==
    \/ ClimoGenNextPair \/ ClimoGenSend \/ ClimoGenFinish
    \/ \E s \in {"gen", "load", "stats"} : ClimoBail(s)
    \/ \E s \in {"load", "parser", "loc"} : ClimoStageRecv(s)
    \/ \E s \in {"load", "parser", "loc"} : ClimoStageSend(s)
    \/ \E w \in Workers : WorkerRecv(w)
    \/ \E w \in Workers : ClimoWorkerSend(w)
    \/ CliJoin
    \/ ClimoLocTerminate
    \/ ClimoStatsAdd \/ ClimoStatsTerminate
    \/ ClimoCollect \/ ClimoJoin

SpecClimo == InitClimo /\ [][NextClimo]_vars

Spec == Init /\ [][Next]_vars

SpecFault == InitFault /\ [][Next]_vars

SpecRerun == Init /\ [][NextRerun]_vars

\* Some thread that can take a step does: the operating system runs the
\* threads, and no step of the pipeline can be repeated forever.
SpecLive == Init /\ [][Next]_vars /\ WF_vars(Next)

SpecLiveFault == InitFault /\ [][Next]_vars /\ WF_vars(Next)

\* The pipeline at rest while the distribution functions are applied.
IdlePipeline ==
    InitInputs({[k \in {<<1, 0>>} |-> Content(k, "ok", <<>>)]}, {NoFault}) /\ InitRun

\* The functions of CumulativeDistribution applied to every sample of up to
\* MaxLen values and every value, in a build with and without overflow checks.
InitCdf ==
    /\ IdleBuilder /\ IdleWindow /\ IdleBlob /\ IdlePipeline /\ IdleRest
    /\ cd = NoCd
    /\ result = NoResult
    /\ sample \in Samples
    /\ value \in F64 \cup {MaxVal + 1}
    /\ debug_build \in BOOLEAN

NextCdf == New \/ PresortedNew \/ DecilesCall \/ PercentileOfValue

SpecCdf == InitCdf /\ [][NextCdf]_vars

\* The window of every day of the year asked about every date of the
\* calendar, Feb 29 included.
InitWindow ==
    /\ IdleCdf /\ IdleBuilder /\ IdleBlob /\ IdlePipeline /\ IdleRest
    /\ accepted = <<>>
    /\ center \in 1..DAYS_IN_YEAR
    /\ vt \in CalendarDates

NextWindow == InWindow

SpecWindow == InitWindow /\ [][NextWindow]_vars

\* The dates, hours and statistics of the rows of the query: the ends of
\* the year, the leap day, and two dates of different months with the same
\* day of the month; statistics below, at and above the minimum.
RowDates == {Date(12, 31), Date(2, 29), Date(6, 15), Date(7, 10)}

RowHours == {0, HOURS_IN_DAY - 1}

RowStats == {<<0, 1, BLOW_UP_MIN - 1, 2>>, <<1, 0, BLOW_UP_MIN, 0>>}

RowChoices ==
    LET rows == {Row(d, h, v[1], v[2], v[3], v[4]) :
                    d \in RowDates, h \in RowHours, v \in RowStats}
    IN  rows \cup {NullRow(Row(Date(12, 31), 0, 0, 0, 0, 0))}

InitBuilder ==
    /\ IdleCdf /\ IdleWindow /\ IdleBlob /\ IdlePipeline /\ IdleRest
    /\ all_data = NotLoaded
    /\ to_ret = NotCreated
    /\ db_rows \in UNION {[1..n -> RowChoices] : n \in 0..MaxRows}

NextBuilder == LoadAllData \/ CreateDeciles

SpecBuilder == InitBuilder /\ [][NextBuilder]_vars

\* Every Deciles of one double, or of one double in one place and another
\* in the other ten.
DecilesValues ==
    {[i \in 1..NUM_DECILES |-> IF i = k THEN a ELSE b] :
        k \in 1..NUM_DECILES, a \in Doubles, b \in Doubles}

InitBlob ==
    /\ IdleCdf /\ IdleBuilder /\ IdleWindow /\ IdlePipeline /\ IdleRest
    /\ blob = <<>>
    /\ back = NotRead
    /\ dec \in DecilesValues

NextBlob == AsBytes \/ FromReader

SpecBlob == InitBlob /\ [][NextBlob]_vars

\* The messages the worker pool of src/builder.rs can hand to the
\* LocationUpdater: the Location message of a sounding with a valid time, or
\* a DataError passing through.
LibLocInputs ==
    {Msg("Location", num, <<p, Snd(p, t, i, kind).vt>>, Snd(p, t, i, kind),
         NoData, "") :
        num \in 1..MaxFiles, p \in Pairs, t \in Times, i \in 1..MaxSnd,
        kind \in SndKinds \ {"novt"}}
        \cup {Msg("DataError", num, <<p, 0>>, NoSnd, NoData, "decode") :
                num \in 1..MaxFiles, p \in Pairs}

\* The stages before the LocationUpdater have finished and left one message
\* in its channel.
InitLibLoc ==
    /\ InitInputs({[k \in {<<1, 0>>} |-> Content(k, "ok", <<"noloc">>)]},
                  {NoFault})
    /\ pc = [s \in Stages |->
               IF s \in {"gen", "load", "parser", "cli"}
               THEN "done" ELSE Fresh.pc[s]]
    /\ wpc = [w \in Workers |-> "done"]
    /\ gen = Fresh.gen
    /\ hold = Fresh.hold
    /\ whold = [w \in Workers |-> <<>>]
    /\ joinIdx = 1
    /\ buffer = <<>>
    /\ pairsSeen = {}
    /\ progress = 0
    /\ emitted = 0
    /\ received = <<>>
    /\ sent = {}
    /\ writeLog = <<>>
    /\ stmts = {}
    /\ removeLog = <<>>
    /\ IdleCdf /\ IdleBuilder /\ IdleWindow /\ IdleBlob /\ IdleRest
    /\ \E m \in LibLocInputs :
          /\ q = [Fresh.q EXCEPT !["loc"] = <<m>>]
          /\ passed = [NonePassed EXCEPT !["loc"] = <<m>>]

NextLibLoc == LibLocRecv \/ LibLocSend \/ LibCollect

SpecLibLoc == InitLibLoc /\ [][NextLibLoc]_vars

\* A ClimoPopulateInterface just initialized, and a store that fails no
\* statement or the statement numbered fail_at.
InitIface ==
    /\ IdleCdf /\ IdleBuilder /\ IdleWindow /\ IdleBlob /\ IdlePipeline
    /\ IdleDeciles /\ IdleQuery
    /\ iface = NewIface
    /\ conn = <<>>
    /\ calls = <<>>
    /\ env \in [fail_at : 0..MaxFailAt, debug : BOOLEAN, rollback : BOOLEAN]

NextIface == IfaceAdd \/ IfaceDrop

SpecIface == InitIface /\ [][NextIface]_vars

\* The distribution build over every changed set of at most MaxPairs pairs.
InitDeciles ==
    /\ IdleCdf /\ IdleBuilder /\ IdleWindow /\ IdleBlob /\ IdlePipeline
    /\ IdleIface /\ IdleQuery
    /\ \E input \in CdfInputs :
          /\ (input.at = 0) = (input.fault # "load")
          /\ input.at <= Len(input.buckets)
          /\ StartedDeciles(input)

NextDeciles ==
    \/ MasterStart \/ MasterLoad \/ MasterSend \/ MasterJoin
    \/ \E w \in Workers : CdfWorkerRecv(w) \/ CdfWorkerSend(w) \/ CdfWorkerEnd(w)
    \/ AdderStart \/ AdderRecv \/ AdderSend \/ AdderClose
    \/ CdfMainRecv \/ CdfMainClose \/ CdfMainJoin

SpecDeciles == InitDeciles /\ [][NextDeciles]_vars

\* hourly_deciles called once on every input.
InitQuery ==
    /\ IdleCdf /\ IdleBuilder /\ IdleWindow /\ IdleBlob /\ IdlePipeline
    /\ IdleIface /\ IdleDeciles
    /\ returned = NotCalled
    /\ range \in QueryInputs

NextQuery == QueryCall

SpecQuery == InitQuery /\ [][NextQuery]_vars

\* The distribution build with every thread and every pool job scheduled
\* fairly.
FairDeciles ==
    /\ WF_vars(MasterStart) /\ WF_vars(MasterLoad)
    /\ WF_vars(MasterSend) /\ WF_vars(MasterJoin)
    /\ \A w \in Workers :
          /\ WF_vars(CdfWorkerRecv(w))
          /\ WF_vars(CdfWorkerSend(w))
          /\ WF_vars(CdfWorkerEnd(w))
    /\ WF_vars(AdderStart) /\ WF_vars(AdderRecv)
    /\ WF_vars(AdderSend) /\ WF_vars(AdderClose)
    /\ WF_vars(CdfMainRecv) /\ WF_vars(CdfMainClose) /\ WF_vars(CdfMainJoin)

SpecDecilesLive == InitDeciles /\ [][NextDeciles]_vars /\ FairDeciles

(***************************************************************************)
(* Properties of data::build.                                              *)
(***************************************************************************)
Terminals ==
    {i \in 1..Len(received) : received[i].type \in {"PopulateCompleted", "DataError"}}

\* C1: when the collector loop has ended on a run without a fatal error, the
\* collector has received as many terminal messages (PopulateCompleted plus
\* DataError) as the Generator emitted Load messages.
C1_TerminalsEqualLoads ==
    (pc["main"] \in {"join", "ok"} /\ fault = NoFault)
        => Cardinality(Terminals) = emitted

AllTerminated ==
    /\ \A s \in Stages \ {"main"} : pc[s] \in Term
    /\ \A w \in Workers : wpc[w] \in Term
    /\ pc["main"] \in {"ok", "failed", "panicked"}

Drained ==
    /\ \A s \in Stages \ {"main"} : pc[s] = "done"
    /\ \A w \in Workers : wpc[w] = "done"
    /\ \A c \in Chans : q[c] = <<>>
    /\ pc["main"] = "ok"

\* C2: graceful drain.  Once the Generator has sent its last Load and dropped
\* its sender, every stage thread and every worker eventually returns, every
\* queue is empty, the collector loop has ended and build has joined every
\* thread and returned Ok.
C2_GracefulDrain == (pc["gen"] = "done") ~> Drained

\* More Loads than a queue holds were emitted and the run drained.
C2_Witness == Drained /\ emitted > CAPACITY

\* C3: a failure of file_exists or remove while the collector handles one
\* DataError does not end the collector loop: the collector stops receiving
\* only when the completion queue is closed and empty.
C3_CollectorSurvivesArchiveFailure ==
    fault.kind \in {"file_exists", "remove"}
        => \/ pc["main"] \in {"start", "collect"}
           \/ q["comp"] = <<>> /\ pc["loc"] = "done"

\* C4: after the INSERT of one record fails inside a flush, the ClimoWriter
\* thread does not unwind: it neither returns an error nor panics, so it goes
\* on consuming the records that follow.
C4_WriterSurvivesInsertFailure ==
    fault.kind = "insert" => pc["stats"] \notin {"failed", "panicked"}

\* C5: build_climo never returns Ok(()) after a stage thread failed to open
\* the store or to connect to the archive and reported it as ThreadError.
C5_ThreadErrorFailsBuild ==
    fault.kind \in {"stats_connect", "gen_connect", "load_connect"}
        => pc["main"] # "ok"

\* C6: when a stage thread has exited early on a fatal error, every other
\* stage thread, every worker and build itself eventually terminate.
C6_FatalExitReleasesAll ==
    (\E s \in Stages \ {"main"} : pc[s] \in {"failed", "panicked"}) ~> AllTerminated

\* A stage thread failed while a Load was in the pipeline, and everything has
\* terminated.
C6_Witness ==
    /\ AllTerminated
    /\ emitted > 0
    /\ \E s \in Stages \ {"main"} : pc[s] = "failed"

(***************************************************************************)
(* The store a run should leave, computed from the archive alone.          *)
(***************************************************************************)
\* The soundings of a file that stand before the first one whose lead time is
\* absent or not below the hours between runs.
KeptIdx(c) ==
    IF c.status = "ok"
    THEN {i \in 1..Len(c.snds) :
            \A j \in 1..i : c.snds[j].lead \in 0..(HoursBetweenRuns - 1)}
    ELSE {}

\* The soundings that become a row of cli: <<file, index>>.
RowSources(a) ==
    {x \in UNION {{<<k, i>> : i \in KeptIdx(a[k])} : k \in DOMAIN a} :
        a[x[1]].snds[x[2]].vt # NoTime}

SndOf(a, x) == a[x[1]].snds[x[2]]

SameKey(a, x, y) == x[1][1] = y[1][1] /\ SndOf(a, x).vt = SndOf(a, y).vt

\* No two soundings of the archive become rows with the same
\* (site, model, valid_time).
UniqueKeys(a) ==
    \A x, y \in RowSources(a) : SameKey(a, x, y) => x = y

\* x is processed before y when the files are taken in the order of their
\* init times and the soundings in the order of the file.
Before(x, y) == x[1][2] < y[1][2] \/ (x[1][2] = y[1][2] /\ x[2] < y[2])

\* The store after the records were written in that order.
InOrderStore(a) ==
    [cli |-> {[pair |-> x[1][1], vt |-> SndOf(a, x).vt, val |-> SndOf(a, x).obs] :
                x \in {y \in RowSources(a) :
                        ~\E z \in RowSources(a) : SameKey(a, y, z) /\ Before(y, z)}},
     locations |-> {[pair |-> x[1][1], loc |-> SndOf(a, x).loc] :
                x \in {y \in RowSources(a) :
                        SndOf(a, y).lead = 0 /\ SndOf(a, y).loc # NoLoc}}]

C9_SingleWriter ==
    \A e \in stmts : e.writerActive => e.thread = "stats"

Written(r) == {i \in 1..Len(writeLog) : writeLog[i] = r}

\* C10: when build returns Ok on a run without a store error, every record
\* sent on the stats channel has been taken from the channel and written to
\* the store exactly once, nothing else has been written, and nothing is left
\* in the channel or in the write buffer.
C10_SentWrittenOnce ==
    (pc["main"] = "ok" /\ fault = NoFault)
        => /\ \A r \in sent : Cardinality(Written(r)) = 1
           /\ \A i \in 1..Len(writeLog) : writeLog[i] \in sent
           /\ q["stats"] = <<>>
           /\ buffer = <<>>

\* build has returned Ok after a full batch was flushed and a partial batch
\* was left to the teardown of the interface.
C10_Witness ==
    /\ pc["main"] = "ok"
    /\ Cardinality(sent) > BUFSIZE
    /\ Cardinality(sent) % BUFSIZE # 0
    /\ Len(writeLog) = Cardinality(sent)

(***************************************************************************)
(* Properties of CumulativeDistribution.                                   *)
(***************************************************************************)
Range(s) == {s[i] : i \in 1..Len(s)}

SetMin(S) == CHOOSE v \in S : \A w \in S : v <= w

SetMax(S) == CHOOSE v \in S : \A w \in S : w <= v

FiniteSample == sample # <<>> /\ Range(sample) \subseteq Finite

DecilesReturned == result.fn = "deciles" /\ result.panic = ""

\* C11: for every non-empty sample of finite values, the deciles of
\* CumulativeDistribution::new(sample) are 11 values, non-decreasing by
\* index, the first the minimum of the sample and the last its maximum.
C11_DecilesMonotone ==
    (FiniteSample /\ result.fn = "deciles") =>
        /\ DecilesReturned
        /\ Len(result.val) = 11
        /\ \A i \in 1..10 : result.val[i] <= result.val[i + 1]
        /\ result.val[1] = SetMin(Range(sample))
        /\ result.val[11] = SetMax(Range(sample))

\* A sample of MaxLen finite values, given out of order, has its deciles.
C11_Witness ==
    /\ FiniteSample
    /\ Len(sample) = MaxLen
    /\ ~IsSorted(sample)
    /\ DecilesReturned
    /\ result.val[1] < result.val[11]

\* The index the nearest rank gives for percentile p in a sample of n
\* values: (n-1)*p/100 rounded to the nearest integer, a half rounded up.
RoundedIndex(n, p) == ((n - 1) * p + 50) \div 100

\* C12: for every sorted NaN-free sample of n >= 1 values and every p in
\* {0,10,...,100}, the decile for p is the element at index
\* round((n-1)*p/100).
C12_DecileIndexRounded ==
    (result.fn = "deciles" /\ Len(cd.sorted_values) >= 1) =>
        /\ DecilesReturned
        /\ \A i \in 1..11 :
               result.val[i] =
                   cd.sorted_values[RoundedIndex(Len(cd.sorted_values),
                                                 10 * (i - 1)) + 1]

\* C13: the deciles of a sample that is empty once its NaN values are
\* removed (an empty sample, or one of NaN values only) are absent: the call
\* returns, without a panic from the index computation or the indexing.
C13_EmptySampleAbsent ==
    (result.fn = "deciles" /\ retain(sample) = <<>>) => result.panic = ""

\* C14: for every sorted sample and every value that is not NaN, also a
\* value above the maximum of the sample and a sample of one element,
\* percentile_of_value returns a Percentile between 0 and 100, without a
\* division by zero.
C14_PercentileInRange ==
    (/\ result.fn = "percentile_of_value"
     /\ Len(cd.sorted_values) >= 1
     /\ ~is_nan(value)) =>
        /\ result.panic = ""
        /\ result.val[1] \in 0..100

(***************************************************************************)
(* Properties of the distribution builder.                                 *)
(***************************************************************************)
\* C15: the window made for centre Jan 3 with a radius of 7 days accepts
\* the dates Dec 27 .. Jan 10 and rejects every other date of the calendar,
\* Dec 26 and Jan 11 among them.
C15_YearEndWindow ==
    (center = 3 /\ accepted # <<>>) =>
        (accepted[1] <=>
            \/ (vt.month = 12 /\ vt.day >= 27)
            \/ (vt.month = 1 /\ vt.day <= 10))

\* The window around Jan 3 (day 3 of the year) has accepted Dec 27.
C15_Witness ==
    /\ center = 3
    /\ vt = Date(12, 27)
    /\ accepted = <<TRUE>>

\* C16: when the start and the end of the window are in the same month
\* (centre Jun 15: Jun 8 .. Jun 22), the window accepts the dates of that
\* month from the start day to the end day and no date of another month.
C16_SingleMonthWindow ==
    (/\ accepted # <<>>
     /\ filter_start(center).month = filter_end(center).month) =>
        (accepted[1] <=>
            /\ vt.month = filter_start(center).month
            /\ vt.day >= filter_start(center).day
            /\ vt.day <= filter_end(center).day)

DecilesCreated == to_ret.fn = "create_deciles" /\ to_ret.panic = ""

EntryKey(e) == <<e.day_of_year, e.hour>>

\* C17: every key of the result of create_deciles has day_of_year in 1..365
\* and hour in 0..23, no key occurs twice, and day 366 is never a key, also
\* when the data hold rows of Feb 29 or of Dec 31.
C17_BucketKeys ==
    DecilesCreated =>
        /\ \A i \in 1..Len(to_ret.entries) :
               /\ to_ret.entries[i].day_of_year \in 1..365
               /\ to_ret.entries[i].hour \in 0..23
        /\ \A i, j \in 1..Len(to_ret.entries) :
               i # j => EntryKey(to_ret.entries[i]) # EntryKey(to_ret.entries[j])

\* Two rows of Feb 29, of the same hour, have gone into buckets.
C17_Witness ==
    /\ DecilesCreated
    /\ Len(all_data.data) = 2
    /\ \A i \in 1..2 : /\ all_data.data[i].vt.month = 2
                       /\ all_data.data[i].vt.day = 29
                       /\ all_data.data[i].vt.hour = 0
    /\ to_ret.entries # <<>>

\* Date a is not after date b in the calendar.
NotAfter(a, b) == a.month < b.month \/ (a.month = b.month /\ a.day <= b.day)

\* The circular window of day n: the dates from 7 days before it to 7 days
\* after it, around the end of the year where the start is after the end.
CircularWindow(n, t) ==
    IF NotAfter(filter_start(n), filter_end(n))
    THEN NotAfter(filter_start(n), t) /\ NotAfter(t, filter_end(n))
    ELSE NotAfter(filter_start(n), t) \/ NotAfter(t, filter_end(n))

MatchingRows(n, h) ==
    SelectSeq(all_data.data, LAMBDA r : r.vt.hour = h /\ CircularWindow(n, r.vt))

\* C18: create_deciles emits an entry for (day_of_year, hour) if and only
\* if some row lies in the circular window of the day and has that hour,
\* and the entry carries, for each statistic, the deciles of exactly the
\* matching rows.
C18_EntryIffRowInWindow ==
    to_ret.fn = "create_deciles" =>
        /\ to_ret.panic = ""
        /\ \A n \in 1..365, h \in 0..23 :
               LET es == {i \in 1..Len(to_ret.entries) :
                             EntryKey(to_ret.entries[i]) = <<n, h>>}
               IN  /\ (es # {}) <=> (MatchingRows(n, h) # <<>>)
                   /\ \A i \in es :
                          to_ret.entries[i].dists =
                              [s \in 1..4 |->
                                  deciles(new(Column(MatchingRows(n, h),
                                                     Stats[s])).sorted_values,
                                          FALSE).val]

ReadRows == SelectSeq(db_rows, LAMBDA r : r.ok)

\* C19: a row returned by load_all_data whose stored blow_up_meters is below
\* 1000 has blow_up_dt = +infinity and blow_up_meters = -infinity, every
\* other row has both as stored, and valid time, hdw and dcape are as
\* stored; so a bucket whose rows are all below the minimum has 11 threshold
\* deciles equal to -infinity.
C19_DegenerateRemapped ==
    /\ all_data.loaded =>
          /\ Len(all_data.data) = Len(ReadRows)
          /\ \A i \in 1..Len(ReadRows) :
                 LET r == ReadRows[i]
                     d == all_data.data[i]
                 IN  /\ d.vt = r.vt /\ d.hdw = r.hdw /\ d.dcape = r.dcape
                     /\ r.meters < 1000 =>
                            d.dt = INFINITY /\ d.meters = NEG_INFINITY
                     /\ r.meters >= 1000 =>
                            d.dt = r.dt /\ d.meters = r.meters
    /\ DecilesCreated =>
          \A i \in 1..Len(to_ret.entries) :
              (\A k \in 1..Len(ReadRows) :
                   (/\ ReadRows[k].vt.hour = to_ret.entries[i].hour
                    /\ to_ret.entries[i].day_of_year \in 1..365
                    /\ make_window_func(
                           filter_start(to_ret.entries[i].day_of_year),
                           filter_end(to_ret.entries[i].day_of_year),
                           ReadRows[k].vt))
                       => ReadRows[k].meters < 1000)
                  => to_ret.entries[i].dists[3] = [p \in 1..11 |-> NEG_INFINITY]

\* A row below the minimum and a row at the minimum were loaded, in
\* different buckets, and the deciles were created.
C19_Witness ==
    /\ DecilesCreated
    /\ Len(ReadRows) = 2
    /\ ReadRows[1].meters < 1000
    /\ ReadRows[2].meters >= 1000
    /\ ReadRows[1].vt.hour # ReadRows[2].vt.hour
    /\ \E i \in 1..Len(to_ret.entries) :
           to_ret.entries[i].dists[3] = [p \in 1..11 |-> NEG_INFINITY]

WithNum(ch, num) == {j \in 1..Len(passed[ch]) : passed[ch][j].num = num}

\* The soundings behind the records of one kind sent to the writer.
SentSources(kind) == {r.src : r \in {x \in sent : x.kind = kind}}

\* C21: for each Parse message the parser forwards exactly the longest
\* leading run of soundings whose lead time is present and less than
\* hours_between_runs, so when build has returned Ok the CliData records sent
\* to the writer are exactly one per sounding of a leading run that has a
\* valid time, and the Location records exactly one per such sounding with
\* lead time zero and a location.
C21_LeadingRunForwarded ==
    (pc["main"] = "ok" /\ fault = NoFault)
        => /\ \A i \in 1..Len(passed["parse"]) :
                LET m == passed["parse"][i]
                IN  (m.type = "Parse" /\ m.data.status = "ok")
                        => Cardinality(WithNum("cli", m.num))
                               = Cardinality(KeptIdx(m.data))
           /\ SentSources("CliData")
                  = {SndOf(arch0, x).obs : x \in RowSources(arch0)}
           /\ SentSources("Location")
                  = {SndOf(arch0, x).obs :
                        x \in {y \in RowSources(arch0) :
                                  /\ SndOf(arch0, y).lead = 0
                                  /\ SndOf(arch0, y).loc # NoLoc}}

\* build has returned Ok on a file whose first sounding is under the cap and
\* whose second is past it: the first reached the writer as a CliData and a
\* Location record, the second did not.
C21_Witness ==
    /\ pc["main"] = "ok"
    /\ \E k \in DOMAIN arch0 :
          /\ arch0[k].status = "ok"
          /\ Len(arch0[k].snds) = 2
          /\ Eligible(arch0[k].snds[1])
          /\ ~Eligible(arch0[k].snds[2])
          /\ SentSources("CliData") = {arch0[k].snds[1].obs}
          /\ SentSources("Location") = {arch0[k].snds[1].obs}

\* The messages of one type the collector has received.
Received(type) == {i \in 1..Len(received) : received[i].type = type}

\* C22: the set of (site, model) pairs build returns is exactly the set of
\* pairs for which the collector received at least one PopulateCompleted
\* message; a pair with only DataError messages, or with no message, is not
\* in it.
C22_PairsOfCompleted ==
    pc["main"] = "ok"
        => pairsSeen = {received[i].pair : i \in Received("PopulateCompleted")}

\* build has returned Ok with one pair in the set, after a DataError for
\* another pair.
C22_Witness ==
    /\ pc["main"] = "ok"
    /\ Cardinality(pairsSeen) = 1
    /\ \E i \in Received("DataError") : received[i].pair \notin pairsSeen

\* The files named by the DataError messages the collector has processed.
ErrorKeys == {<<received[i].pair, received[i].time>> : i \in Received("DataError")}

\* The files the pipeline has removed from the raw archive.
Removed == {removeLog[i].key : i \in 1..Len(removeLog)}

\* C23: once the collector has processed a DataError for (site, model, time)
\* the raw archive holds no file for that key; remove is only called on a
\* file that file_exists found, also when several DataErrors name one file;
\* and no file but those named by a DataError is removed.
C23_ErrorFileRemoved ==
    fault = NoFault
        => /\ ErrorKeys \cap files = {}
           /\ \A i \in 1..Len(removeLog) : removeLog[i].existed
           /\ Removed \subseteq ErrorKeys
           /\ (DOMAIN arch0) \ files = Removed

\* Two DataErrors named the same file, which was removed once; build has
\* returned Ok.
C23_Witness ==
    /\ pc["main"] = "ok"
    /\ Len(removeLog) = 1
    /\ \E i, j \in Received("DataError") :
          /\ i # j
          /\ received[i].pair = received[j].pair
          /\ received[i].time = received[j].time
          /\ removeLog[1].key = <<received[i].pair, received[i].time>>

\* C24: the progress value reflects only completed items: a step in which
\* the collector receives a DataError leaves the progress value unchanged.
C24_ErrorKeepsProgress ==
    [][(/\ Len(received') = Len(received) + 1
        /\ received'[Len(received')].type = "DataError")
            => progress' = progress]_vars

\* The Load messages the Generator has emitted for the pair p.
LoadsOf(p) == {j \in 1..Len(passed["load"]) : passed["load"][j].pair = p}

\* The init-times of the pair p in the raw archive when the run began: the
\* collector only removes files.
InitTimesOf(p) == {k[2] : k \in {f \in files \cup Removed : f[1] = p}}

\* The times the Statistics Store held for the pair p when the run began.
PresentTimes(p) == {r.vt : r \in {x \in store1.cli : x.pair = p}}

\* The init-times a run has to load.
MissingTimes(p) ==
    IF op = "build" THEN InitTimesOf(p) ELSE InitTimesOf(p) \ PresentTimes(p)

\* C25: when the Generator has finished, it has emitted for each pair
\* exactly one Load per init-time of the archive that is not in the
\* Statistics Store on `update`, exactly one Load per init-time of the
\* archive on `build`, and on `update` no Load for an init-time the store
\* holds.
C25_OneLoadPerMissingTime ==
    (pc["gen"] = "done" /\ fault = NoFault)
        => \A p \in Pairs :
              /\ {passed["load"][j].time : j \in LoadsOf(p)} = MissingTimes(p)
              /\ Cardinality(LoadsOf(p)) = Cardinality(MissingTimes(p))
              /\ \A j \in LoadsOf(p) : passed["load"][j].type = "Load"

\* The Generator has finished an `update` over an archive with two files of
\* one pair, both of whose init-times the store holds: no Load was emitted.
C25_Witness ==
    /\ run = 2
    /\ op = "update"
    /\ pc["gen"] = "done"
    /\ \E p \in Pairs :
          /\ Cardinality(InitTimesOf(p)) = 2
          /\ InitTimesOf(p) \subseteq PresentTimes(p)
          /\ LoadsOf(p) = {}

\* The total item count returned up front: the files of the raw archive
\* when the run began.
Total == Cardinality(files \cup Removed)

\* The channels whose messages carry a sequence number.
NumChans == Chans \ {"stats"}

\* The message m derives from the Load l: same item, and the file of l is
\* the file m names or the file of the sounding m carries.
DerivedFrom(m, l) ==
    /\ l.type = "Load"
    /\ l.pair = m.pair
    /\ m.type \in {"Load", "Parse", "DataError"} => l.time = m.time
    /\ m.type \in {"CliData", "Location"}
           => <<l.pair, l.time>> = <<m.snd.obs[1], m.snd.obs[2]>>

\* C26: the Load messages are emitted with strictly increasing num, every
\* num is between 1 and the total item count, and every message derived from
\* a Load (Parse, CliData, Location, PopulateCompleted, DataError) carries
\* the num of that Load.
C26_SequenceNumbers ==
    /\ \A i, j \in 1..Len(passed["load"]) :
          i < j => passed["load"][i].num < passed["load"][j].num
    /\ \A ch \in NumChans : \A j \in 1..Len(passed[ch]) :
          LET m == passed[ch][j]
          IN  /\ m.num \in 1..Total
              /\ \E i \in 1..Len(passed["load"]) :
                    /\ passed["load"][i].num = m.num
                    /\ DerivedFrom(m, passed["load"][i])

\* build has returned Ok after a Load for each of two pairs, the second of
\* which ended in a PopulateCompleted with the number 2.
C26_Witness ==
    /\ pc["main"] = "ok"
    /\ Len(passed["load"]) = 2
    /\ passed["load"][1].pair # passed["load"][2].pair
    /\ \E i \in Received("PopulateCompleted") :
          /\ received[i].num = 2
          /\ received[i].pair = passed["load"][2].pair

\* The messages of one type in a channel's history that carry the sounding
\* obs.
Carrying(ch, type, obs) ==
    {j \in 1..Len(passed[ch]) :
        passed[ch][j].type = type /\ passed[ch][j].snd.obs = obs}

\* The records written for the sounding obs.
WrittenFor(kind, obs) ==
    {j \in 1..Len(writeLog) : writeLog[j].kind = kind /\ writeLog[j].src = obs}

\* The DataErrors the parser sent for the item num for want of a valid time.
NoValidTime(num) ==
    {j \in 1..Len(passed["cli"]) :
        /\ passed["cli"][j].type = "DataError"
        /\ passed["cli"][j].num = num
        /\ passed["cli"][j].text = "No valid time"}

\* The outcome of the retained sounding snd of the Parse message m: a
\* CliData message, one CliData record and one Location message with the
\* same num, site, model and valid time; nothing of these without a valid
\* time.
OneOutcome(m, snd) ==
    IF snd.vt = NoTime
    THEN /\ Carrying("cli", "CliData", snd.obs) = {}
         /\ Carrying("loc", "Location", snd.obs) = {}
         /\ WrittenFor("CliData", snd.obs) = {}
         /\ WrittenFor("Location", snd.obs) = {}
    ELSE /\ Cardinality(Carrying("cli", "CliData", snd.obs)) = 1
         /\ Cardinality(WrittenFor("CliData", snd.obs)) = 1
         /\ Cardinality(Carrying("loc", "Location", snd.obs)) = 1
         /\ \A i \in Carrying("cli", "CliData", snd.obs) :
               \A j \in Carrying("loc", "Location", snd.obs) :
                  /\ passed["loc"][j] = [passed["cli"][i] EXCEPT !.type = "Location"]
                  /\ passed["cli"][i].num = m.num
                  /\ passed["cli"][i].pair = m.pair
                  /\ passed["cli"][i].time = snd.vt

\* C27: each sounding the parser retains has exactly one outcome: without a
\* valid time one DataError and no StatsRecord; otherwise one CliData
\* message, from which a worker sends one CliData StatsRecord to the writer
\* and one Location message downstream with the same num, site, model and
\* valid time.
C27_OneOutcomePerSounding ==
    (pc["main"] = "ok" /\ fault = NoFault)
        => \A i \in 1..Len(passed["parse"]) :
              LET m == passed["parse"][i]
                  kept == IF m.type = "Parse" THEN KeptIdx(m.data) ELSE {}
              IN  /\ \A x \in kept : OneOutcome(m, m.data.snds[x])
                  /\ m.type = "Parse"
                        => Cardinality(NoValidTime(m.num))
                             = Cardinality({x \in kept :
                                               m.data.snds[x].vt = NoTime})

\* build has returned Ok on a file with a sounding that has a valid time
\* and one that has none: one record was written and one DataError received.
C27_Witness ==
    /\ pc["main"] = "ok"
    /\ \E i \in 1..Len(passed["parse"]) :
          LET m == passed["parse"][i]
          IN  /\ m.type = "Parse"
              /\ KeptIdx(m.data) = {1, 2}
              /\ Cardinality(NoValidTime(m.num)) = 1
              /\ Len(writeLog) >= 1

\* The sounding of the archive behind a record sent to the writer.
Origin(r) == arch0[<<r.src[1], r.src[2]>>].snds[r.src[3]]

\* C28: every Location StatsRecord sent to the writer originates from a
\* sounding whose lead time is present and zero; a sounding with another or
\* no lead time never causes a Location record, whatever flows through the
\* parser and the location stage.
C28_LocationFromLeadZero ==
    \A r \in sent : r.kind = "Location"
        => Origin(r).lead # NoLead /\ Origin(r).lead = 0

\* build has returned Ok on a file with two retained soundings, the second
\* with lead time 1: both gave a CliData record, only the first a Location
\* record.
C28_Witness ==
    /\ pc["main"] = "ok"
    /\ \E k \in DOMAIN arch0 :
          /\ Len(arch0[k].snds) = 2
          /\ arch0[k].snds[2].lead = 1
          /\ arch0[k].snds[2].obs \in SentSources("CliData")
          /\ SentSources("Location") = {arch0[k].snds[1].obs}

\* The terminal messages sent to the collector of src/builder.rs for the
\* item num.
LibTerminals(num) ==
    {i \in 1..Len(passed["comp"]) :
        /\ passed["comp"][i].num = num
        /\ passed["comp"][i].type \in {"Completed", "DataError"}}

\* C29: in start_location_stats_thread of src/builder.rs each lead-zero
\* Location message results in exactly one terminal message to the
\* collector: a DataError if the location or the elevation is missing,
\* otherwise a Completed, never both.
C29_OneTerminalPerLocation ==
    pc["loc"] = "done"
        => \A j \in 1..Len(passed["loc"]) :
              LET m == passed["loc"][j]
              IN  (m.type = "Location" /\ m.snd.lead = 0)
                     => /\ Cardinality(LibTerminals(m.num)) = 1
                        /\ \A i \in LibTerminals(m.num) :
                              passed["comp"][i].type
                                 = IF m.snd.loc = NoLoc
                                   THEN "DataError" ELSE "Completed"

\* How often the message d occurs in a sequence of messages.
CountIn(seq, d) == Cardinality({i \in 1..Len(seq) : seq[i] = d})

\* The DataErrors in a channel's history.
ErrorsIn(ch) ==
    {passed[ch][i] : i \in {j \in 1..Len(passed[ch]) :
                               passed[ch][j].type = "DataError"}}

\* C30: a message a stage does not handle is forwarded unchanged and never
\* dropped: a DataError created by the Load stage or by the parser reaches
\* the collector exactly as often as it was created, with the same num,
\* site, model, time and text, after the parser, the worker pool and the
\* location stage.
C30_ErrorsPassThrough ==
    (pc["main"] = "ok" /\ fault = NoFault)
        => /\ \A d \in ErrorsIn("parse") :
                CountIn(passed["cli"], d) = CountIn(passed["parse"], d)
           /\ \A d \in ErrorsIn("cli") :
                /\ CountIn(passed["loc"], d) = CountIn(passed["cli"], d)
                /\ CountIn(received, d) = CountIn(passed["cli"], d)

\* build has returned Ok after the DataError of the Load stage for a file it
\* could not read went through the three stages to the collector.
C30_Witness ==
    /\ pc["main"] = "ok"
    /\ \E d \in ErrorsIn("parse") :
          /\ d.text = "retrieve"
          /\ CountIn(passed["loc"], d) = 1
          /\ CountIn(received, d) = 1

(***************************************************************************)
(* Properties of the channels, the write buffer and the failures.          *)
(***************************************************************************)
\* A step does to a channel one of: nothing, take its first message, append
\* a message where there is a free slot, or (a new run) replace it by an
\* empty channel.
ChannelStep(ch) ==
    \/ q'[ch] = q[ch]
    \/ q[ch] # <<>> /\ q'[ch] = Tail(q[ch])
    \/ /\ Len(q[ch]) < CAPACITY
       /\ Len(q'[ch]) = Len(q[ch]) + 1
       /\ SubSeq(q'[ch], 1, Len(q[ch])) = q[ch]
    \/ run' # run /\ q'[ch] = <<>>

\* C31: backpressure.  In every reachable state each bounded channel, the
\* stats channel included, holds at most CAPACITY messages, and a step never
\* drops or overwrites a message of a channel: a sender facing a full
\* channel waits.
C31_Backpressure ==
    /\ [](\A ch \in Chans : Len(q[ch]) <= CAPACITY)
    /\ [][\A ch \in Chans : ChannelStep(ch)]_vars

\* The stats channel is full and the location stage holds a record for it.
C31_Witness ==
    /\ Len(q["stats"]) = CAPACITY
    /\ hold["loc"] # <<>>
    /\ Head(hold["loc"]).to = "stats"

\* The stage whose own call fails in this run.
RootStage ==
    CASE fault.kind \in {"gen_connect", "gen_init_times"} -> "gen"
      [] fault.kind = "load_connect" -> "load"
      [] fault.kind \in {"stats_connect", "insert"} -> "stats"
      [] fault.kind \in {"main_connect", "file_exists", "remove"} -> "main"
      [] OTHER -> "none"

\* build has returned the error of a thread it joined.
ReturnedJoinError == pc["main"] = "failed" /\ RootStage # "main"

\* C35: when a stage fails fatally and other stages then fail only because
\* a channel endpoint was dropped, the error build returns is the error of
\* the stage that failed first, not the disconnected-send error of a
\* dependent stage.
C35_RootCauseReturned ==
    ReturnedJoinError => JoinOrder[joinIdx] = RootStage

\* The Load message the item num began with.
LoadsWithNum(num) ==
    {passed["load"][i] : i \in {j \in 1..Len(passed["load"]) :
                                   passed["load"][j].num = num}}

LeadZeroObs(l) == <<l.pair, l.time, 1>>

\* The PopulateCompleted messages sent so far.
Acknowledged ==
    {j \in 1..Len(passed["comp"]) : passed["comp"][j].type = "PopulateCompleted"}

\* C37: whenever a PopulateCompleted for a sounding has been sent to the
\* collector, and so whenever the collector receives it, the CliData record
\* and the Location record of that sounding have already been sent on the
\* stats channel.
C37_RecordsBeforeAck ==
    \A j \in Acknowledged :
       \A l \in LoadsWithNum(passed["comp"][j].num) :
          /\ LeadZeroObs(l) \in SentSources("CliData")
          /\ LeadZeroObs(l) \in SentSources("Location")

\* The collector has received a PopulateCompleted while the writer has not
\* yet written the records of its sounding.
C37_Witness ==
    /\ Received("PopulateCompleted") # {}
    /\ Cardinality(sent) = 2
    /\ writeLog = <<>>
    /\ pc["stats"] \notin Term

\* No statement of the run failed.
NoStoreError == \A i \in 1..Len(conn) : conn[i].ok

\* The call executed statements, that is, it flushed.
Flushed(call) == call.to >= call.from

\* The statements of the call are one transaction around n inserts.
OneTransaction(call, n) ==
    /\ call.to - call.from + 1 = n + 2
    /\ conn[call.from].stmt = "BEGIN TRANSACTION" /\ ~conn[call.from].in_tx
    /\ conn[call.to].stmt = "COMMIT TRANSACTION"
    /\ \A i \in (call.from + 1)..(call.to - 1) :
          conn[i].stmt = "INSERT" /\ conn[i].in_tx

\* C32: without store errors the write buffer holds fewer than BUFSIZE
\* records after every add, the assertion of add never fails, an add
\* flushes exactly when it brings the buffer to BUFSIZE records, and each
\* flush is one BEGIN .. COMMIT around the BUFSIZE inserts.
C32_WriteBatching ==
    NoStoreError =>
        /\ Len(iface.write_buffer) < BUFSIZE
        /\ \A i \in 1..Len(calls) :
              calls[i].fn = "add" =>
                  /\ calls[i].ret = "Ok"
                  /\ calls[i].len_before <= BUFSIZE
                  /\ Flushed(calls[i]) <=> calls[i].len_before + 1 = BUFSIZE
                  /\ Flushed(calls[i]) => OneTransaction(calls[i], BUFSIZE)

\* A debug build flushed on one add and buffers the record of a later one.
C32_Witness ==
    /\ NoStoreError /\ env.debug /\ ~iface.dropped
    /\ Len(iface.write_buffer) = 1
    /\ Len(iface.rows) >= BUFSIZE
    /\ \E i \in 1..Len(calls) : calls[i].fn = "add" /\ Flushed(calls[i])

\* The inserts of the call that failed.
FailedInserts(call) ==
    {i \in call.from..call.to : conn[i].stmt = "INSERT" /\ ~conn[i].ok}

\* The rows in the store.
Stored == {iface.rows[i] : i \in 1..Len(iface.rows)}

\* C38: when the insert of a record fails during a flush, the records before
\* it are committed, the records after it are dropped without an insert, the
\* buffer is empty and the call returns the error; and whether a flush
\* returns Ok or Err, it leaves no transaction open.
C38_FlushOnFailure ==
    /\ ~iface.in_tx
    /\ \A k \in 1..Len(calls) : \A i \in FailedInserts(calls[k]) :
          /\ calls[k].ret # "Ok"
          /\ calls[k].len_after = 0
          /\ \A j \in calls[k].from..(i - 1) :
                conn[j].stmt = "INSERT" => conn[j].rec[1] \in Stored
          /\ \A j \in (i + 1)..calls[k].to : conn[j].stmt # "INSERT"

\* The part of C38 about a failing insert holds whenever the COMMIT
\* statements of the run succeed.
C38_WhenCommitSucceeds ==
    (\A i \in 1..Len(conn) : conn[i].stmt = "COMMIT TRANSACTION" => conn[i].ok)
        => C38_FlushOnFailure

(***************************************************************************)
(* Properties of hourly_deciles and of the distribution build              *)
(***************************************************************************)
\* C40: for start_time < end_time less than 366 days apart and rows with a
\* day of the year in 1..=365, hourly_deciles never reaches the
\* unreachable!() of the year assignment, also when the range crosses a
\* year boundary and a row's day lies strictly between the end day and the
\* start day.
C40_UnreachableNotReached == returned.ret # "Panic"

\* hourly_deciles returns whenever the range lies in one year, or every row
\* lies on or after the start day or on or before the end day.
C40_ReturnsOutsideTheGap ==
    (returned.ret # "none"
        /\ \/ range.start_time.year = range.end_time.year
           \/ \A i \in DOMAIN range.rows :
                 \/ range.rows[i] >= range.start_time.ordinal
                 \/ range.rows[i] <= range.end_time.ordinal)
        => returned.ret = "Ok"

\* The CDFStatsCompleted messages the CDFDbAdder has made so far.
Acks ==
    {m \in {chold["adder"]} \cup Range(cq["main"]) \cup Range(cgot) :
        m.type = "CDFStatsCompleted"}

\* How many of the messages the main loop received are for pair p.
AcksFor(p) ==
    Cardinality({i \in 1..Len(cgot) :
                    cgot[i].type = "CDFStatsCompleted" /\ cgot[i].pair = p})

\* C33: when a distribution build over N pairs returns Ok, the main loop has
\* received exactly N messages, one CDFStatsCompleted for each pair, also
\* for a pair without decile rows; and a CDFStatsCompleted is made only
\* after every decile row of its pair was passed to add_to_db.
C33_OneAckPerPair ==
    /\ cpc["main"] = "done" =>
          /\ Len(cgot) = Len(cin.buckets)
          /\ \A p \in DOMAIN cin.buckets : AcksFor(p) = 1
    /\ \A m \in Acks :
          \A i \in 1..cin.buckets[m.pair] : <<m.pair, i>> \in Range(cdb.passed)

\* A build over more pairs than a channel holds has returned Ok; one pair
\* had a decile row and one had none.
C33_Witness ==
    /\ cpc["main"] = "done"
    /\ Len(cin.buckets) > CAPACITY
    /\ \E p, r \in DOMAIN cin.buckets :
          cin.buckets[p] = 0 /\ cin.buckets[r] > 0

\* C34: the CDFDbAdder wraps its run in one transaction; while a
\* transaction is open on its connection no further BEGIN TRANSACTION is
\* issued, the flush that add_to_db triggers at BUFSIZE rows included.
C34_NoNestedBegin ==
    \A i \in 1..Len(cdb.log) :
        cdb.log[i].stmt = "BEGIN TRANSACTION" => ~cdb.log[i].in_tx

\* C39: the distribution build terminates for every changed set: the main
\* loop over the completion channel ends and build returns, with more pairs
\* than a channel holds and when CDFMaster returns early on a load error;
\* and a CDFDbAdder that saw its input closed has executed its commit.
C39_Terminates ==
    /\ <>(cpc["main"] \in CdfEnded)
    /\ [](cpc["adder"] = "done" =>
            \E i \in 1..Len(cdb.log) :
                cdb.log[i].stmt = "COMMIT TRANSACTION" /\ cdb.log[i].ok)

\* A build over more pairs than a channel holds has ended after every pool
\* job finished and the CDFDbAdder committed.
C39_Witness ==
    /\ cpc["main"] \in CdfEnded
    /\ cpc["adder"] = "done"
    /\ Len(cin.buckets) > CAPACITY
    /\ \A w \in Workers : cw[w].pc = "done"

\* A build has ended after CDFMaster returned early on a load error.
C39_WitnessLoadError ==
    /\ cpc["main"] \in CdfEnded
    /\ cin.fault = "load"
    /\ cpc["master"] = "failed"

====
